---- MODULE Spec2Model ----
(***************************************************************************)
(* DownFileorg: a file organizer that classifies the files of a folder and *)
(* moves each one into a category folder.                                  *)
(*                                                                         *)
(* Three parts of the program are modelled, each with its own              *)
(* specification over the same variables:                                  *)
(*   SpecPredict   RandomForestFileClassifier.predict and the wrappers of  *)
(*                 universal_classifier_cli.py (merge, top-1 pick,         *)
(*                 keyword override);                                      *)
(*   SpecOrganize  auto_file_organizer.FileOrganizerHandler: folder        *)
(*                 resolution, conflict loop and move, one file at a time; *)
(*   SpecWatch     file_classifier_gui_watchdog.FileOrganizerHandler: one  *)
(*                 worker thread per on_created event, sharing             *)
(*                 processing_files.                                       *)
(* File and folder names are strings; lower(), substring tests and the     *)
(* splitting of a name into stem and extension are computed on them.       *)
(* Probabilities are integers in hundredths (100 = 1.0).                   *)
(***************************************************************************)
EXTENDS Integers, Sequences, FiniteSets, TLC

VARIABLES
    \* ---- classifier (SpecPredict)
    probabilities,     \* rf_model.predict_proba(...)[0], indexed like classes_
    filename,          \* the file name given to predict
    size_kb,           \* the file size in KiB (size_mb * 1024)
    stage,             \* which predict has returned: "input", "rf", "wrapper", "enhanced"
    result,            \* the dict the predict call returned
    \* ---- auto_file_organizer.FileOrganizerHandler (SpecOrganize)
    dirs,              \* names of the directories under downloads_path, on disk
    existing_folders,  \* self.existing_folders, in its iteration order
    rootWritable,      \* whether mkdir under downloads_path succeeds
    rootFiles,         \* names of the regular files in downloads_path
    folderFiles,       \* directory name -> names of the files in it
    opc,               \* position of the handler inside _organize_file
    cur,               \* locals of _organize_file
    call,              \* the last _get_or_create_folder call, before and after
    deletedSince,      \* a directory was deleted externally since the last call
    nDeleted,          \* number of external deletions so far
    confl,             \* the last run of the conflict loop
    history,           \* organized_files.log
    nOrganized,        \* number of _organize_file runs started
    \* ---- file_classifier_gui_watchdog.FileOrganizerHandler (SpecWatch)
    processing_files,  \* self.processing_files
    srcSize,           \* watched path -> size of the file there, NoFile if none
    events,            \* watched path -> number of on_created events delivered
    wpc,               \* worker -> position in _process_file_delayed and _organize_file
    wloc,              \* worker -> its locals, the status_callback messages it sent
                       \* and how its _organize_file ended
    destFiles,         \* category folder -> names of the files in it
    classified,        \* watched path -> number of classifier.predict calls
    moveCalls,         \* watched path -> number of shutil.move calls
    mkdirs,            \* category folder -> number of times os.makedirs created it
    watch_state,       \* "watching" while is_watching, "stopped" after stop_watchdog,
                       \* "closed" once the window is destroyed and the process ends
    sweep,             \* the thread of _organize_existing_files: its position, the
                       \* entries of `files` not yet visited and its locals
    \* ---- RandomForestFileClassifier.extract_features_from_file (SpecFeatures)
    feature_names,     \* self.feature_names: the columns of the training data
    extension_mapping, \* self.extension_mapping, as items in insertion order
    file_path,         \* os.path.basename of the path given to the extraction
    size_on_disk,      \* os.path.getsize of it in bytes, Unreadable if it raises
    df,                \* the row of the DataFrame returned, as items in column order
    fpc,               \* whether extract_features_from_file has returned
    \* ---- auto_file_organizer.AutoFileOrganizer (SpecMonitor)
    model_file,        \* what is at model_path: "absent", "corrupt" or "valid"
    is_trained,        \* self.classifier.is_trained
    mpc,               \* position of start_monitoring
    handler,           \* whether self.handler holds a constructed handler
    observer,          \* self.observer: "none", "created", "started", "stopping", "stopped"
    file_list,         \* `files` of organize_existing_files: the entries not yet visited
    organized_count,   \* organized_count of organize_existing_files
    running,           \* who called _organize_file, for which file, and where it is
    outcome,           \* file -> how its last run through the pipeline ended
    growing,           \* the files of downloads_path that are still being written
    pending,           \* the events the observer has not dispatched yet
    nArrived           \* number of files that arrived while the observer ran

predictVars == <<probabilities, filename, size_kb, stage, result>>
organizeVars == <<dirs, existing_folders, rootWritable, rootFiles, folderFiles, opc,
                  cur, call, deletedSince, nDeleted, confl, history, nOrganized>>
watchVars == <<processing_files, srcSize, events, wpc, wloc, destFiles, classified, moveCalls,
               mkdirs, watch_state, sweep>>
featureVars == <<feature_names, extension_mapping, file_path, size_on_disk, df, fpc>>
monitorVars == <<model_file, is_trained, mpc, handler, observer, file_list, organized_count,
                 running, outcome, growing, pending, nArrived>>
vars == <<predictVars, organizeVars, watchVars, featureVars, monitorVars>>

-----------------------------------------------------------------------------
(* Strings                                                                 *)

UpperChars == "ABCDEFGHIJKLMNOPQRSTUVWXYZ"
LowerChars == "abcdefghijklmnopqrstuvwxyz"

CharAt(s, i) == SubSeq(s, i, i)

\* str.lower() on one character
LowerChar(c) ==
    IF \E i \in 1..Len(UpperChars) : CharAt(UpperChars, i) = c
    THEN CharAt(LowerChars, CHOOSE i \in 1..Len(UpperChars) : CharAt(UpperChars, i) = c)
    ELSE c

RECURSIVE Lower(_)
\* str.lower()
Lower(s) == IF s = "" THEN "" ELSE LowerChar(CharAt(s, 1)) \o Lower(Tail(s))

\* str.lower() of the names the model uses, computed once
KnownNames ==
    {"Education", "education and finance", "Education and Finance", "old movies", ".cache",
     "Finance", "Movies", "Others", ".pdf", ".part", "", ".mp4", ".PDF",
     "tax_invoice_2024.pdf", "lecture_notes.pdf", "scan.PDF", "avengers_movie.mp4"}
LowerTable == [s \in KnownNames |-> Lower(s)]
LowerOf(s) == IF s \in KnownNames THEN LowerTable[s] ELSE Lower(s)

\* Python's `sub in s`
Contains(s, sub) ==
    \E i \in 1..(Len(s) - Len(sub) + 1) : SubSeq(s, i, i + Len(sub) - 1) = sub

\* str.startswith / str.endswith
StartsWith(s, pre) == Len(pre) <= Len(s) /\ SubSeq(s, 1, Len(pre)) = pre
EndsWith(s, suf) == Len(suf) <= Len(s) /\ SubSeq(s, Len(s) - Len(suf) + 1, Len(s)) = suf

\* positions of the dots of a name
DotPositions(s) == {i \in 1..Len(s) : CharAt(s, i) = "."}

\* position of the first character that is not a leading dot
FirstNonDot(s) ==
    IF \A i \in 1..Len(s) : CharAt(s, i) = "." THEN Len(s) + 1
    ELSE CHOOSE i \in 1..Len(s) : CharAt(s, i) # "." /\ \A j \in 1..(i - 1) : CharAt(s, j) = "."

Max(a, b) == IF a >= b THEN a ELSE b
SetMax(S) == CHOOSE x \in S : \A y \in S : y <= x

\* os.path.splitext: the extension starts at the last dot, leading dots excluded
SplitextAt(s) ==
    LET cand == {i \in DotPositions(s) : i > FirstNonDot(s)}
    IN  IF cand = {} THEN Len(s) + 1 ELSE SetMax(cand)
SplitextRoot(s) == SubSeq(s, 1, SplitextAt(s) - 1)
SplitextExt(s) == SubSeq(s, SplitextAt(s), Len(s))

\* pathlib.PurePath.suffix / .stem: the last dot, unless it is the first or the
\* last character of the name
SuffixAt(s) ==
    LET cand == {i \in DotPositions(s) : i > 1 /\ i < Len(s)}
    IN  IF cand = {} \/ SetMax(DotPositions(s)) = Len(s) THEN Len(s) + 1 ELSE SetMax(cand)
PathStem(s) == SubSeq(s, 1, SuffixAt(s) - 1)
PathSuffix(s) == SubSeq(s, SuffixAt(s), Len(s))

-----------------------------------------------------------------------------
(* RandomForestFileClassifier.predict (random_forest_classifier.py)         *)

\* label_encoder.classes_: the labels of the training data, sorted
classes_ == <<"Apps", "Career", "Education", "Entertainment", "Finance", "Games",
              "Movies", "Others">>

\* self.categories
categories(c) ==
    IF c \in {"Education", "Finance"} THEN "Education and Finance" ELSE c

\* get_folder_name
get_folder_name(predicted_category) ==
    IF predicted_category \in {"Education", "Finance"} THEN "Education and Finance"
    ELSE categories(predicted_category)

\* np.argmax: the first index holding the maximum
ArgMax(p) ==
    CHOOSE i \in 1..Len(p) :
        /\ \A j \in 1..Len(p) : p[j] <= p[i]
        /\ \A j \in 1..(i - 1) : p[j] < p[i]

\* list(classes_).index(name); 0 stands for ValueError
ClassIndex(name) ==
    IF \E i \in 1..Len(classes_) : classes_[i] = name
    THEN CHOOSE i \in 1..Len(classes_) : classes_[i] = name
    ELSE 0

\* A dict is the sequence of its items in insertion order.
DictHas(d, k) == \E i \in 1..Len(d) : d[i].name = k
DictGet(d, k) == d[CHOOSE i \in 1..Len(d) : d[i].name = k].prob
DictKeys(d) == {d[i].name : i \in 1..Len(d)}
DictSet(d, k, v) ==
    IF DictHas(d, k)
    THEN [i \in 1..Len(d) |-> IF d[i].name = k THEN [name |-> k, prob |-> v] ELSE d[i]]
    ELSE Append(d, [name |-> k, prob |-> v])
RECURSIVE DictSum(_)
DictSum(d) == IF d = <<>> THEN 0 ELSE Head(d).prob + DictSum(Tail(d))

\* the class a raw Finance probability is accumulated under
MergeTarget(actual_name) == IF actual_name = "Finance" THEN "Education" ELSE actual_name

RECURSIVE ProbDictFrom(_, _, _)
\* the loop that builds prob_dict, from class index i on
ProbDictFrom(p, i, prob_dict) ==
    IF i > Len(classes_) THEN prob_dict
    ELSE LET actual_name == classes_[i]
             key == MergeTarget(actual_name)
         IN  IF actual_name = "Finance"
             THEN ProbDictFrom(p, i + 1,
                      IF DictHas(prob_dict, key)
                      THEN DictSet(prob_dict, key, DictGet(prob_dict, key) + p[i])
                      ELSE DictSet(prob_dict, key, p[i]))
             ELSE ProbDictFrom(p, i + 1, DictSet(prob_dict, actual_name, p[i]))

\* a prob_dict whose Education entry is overwritten by Finance, not added to
ProbDictOverwriting(p) ==
    DictSet(ProbDictFrom(p, 1, <<>>), "Education", p[ClassIndex("Finance")])

ProbDict(p) == ProbDictFrom(p, 1, <<>>)

\* the class predict reports for the raw top-1 class
PredictedClass(p) ==
    IF classes_[ArgMax(p)] = "Finance" THEN "Education" ELSE classes_[ArgMax(p)]

\* the confidence predict reports
Confidence(p) ==
    IF classes_[ArgMax(p)] = "Finance"
    THEN IF ClassIndex("Education") # 0 THEN p[ClassIndex("Education")] ELSE p[ArgMax(p)]
    ELSE p[ArgMax(p)]

\* RandomForestFileClassifier.predict, given what predict_proba returned
Predict(file, p) ==
    [filename           |-> file,
     predicted_category |-> PredictedClass(p),
     folder_name        |-> get_folder_name(PredictedClass(p)),
     confidence         |-> Confidence(p),
     all_probabilities  |-> ProbDict(p)]

-----------------------------------------------------------------------------
(* The wrappers of universal_classifier_cli.py                             *)

\* size_mb < 50 and size_mb < 5, in KiB
SmallPdfKB == 51200
VerySmallPdfKB == 5120

\* thresholds and boosts of the enhancement rules, in hundredths
AmbiguityGap == 30
KeywordBoost == 20
KeywordFloor == 70
TieBoost == 15
TieFloor == 60
EducationFloor == 15

\* the value of result['enhancement_applied'] when the key is absent
NoEnhancement == "absent"

edu_indicators ==
    {"assignment", "homework", "notes", "lecture", "class", "unit", "chapter", "lesson",
     "tutorial", "exercise", "quiz", "test", "exam", "study", "course", "syllabus", "lab",
     "report", "math", "science", "biology", "chemistry", "physics", "computer",
     "programming", "calculus", "algebra"}

finance_indicators ==
    {"tax", "invoice", "bill", "receipt", "statement", "bank", "salary", "payroll",
     "budget", "expense", "income", "investment", "loan", "mortgage", "insurance", "audit"}

\* sum(1 for indicator in indicators if indicator in filename_lower)
KeywordScore(indicators, filename_lower) ==
    Cardinality({k \in indicators : Contains(filename_lower, k)})

\* index of the first item holding the largest probability
FirstMax(d) ==
    CHOOSE i \in 1..Len(d) :
        /\ \A j \in 1..Len(d) : d[j].prob <= d[i].prob
        /\ \A j \in 1..(i - 1) : d[j].prob < d[i].prob

RemoveAt(d, i) == SubSeq(d, 1, i - 1) \o SubSeq(d, i + 1, Len(d))

RECURSIVE SortedProbs(_)
\* sorted(items, key=lambda x: x[1], reverse=True): stable, equal items keep their order
SortedProbs(d) ==
    IF d = <<>> THEN <<>>
    ELSE <<d[FirstMax(d)]>> \o SortedProbs(RemoveAt(d, FirstMax(d)))

Abs(x) == IF x < 0 THEN 0 - x ELSE x

\* RandomForestClassifierWrapper.predict: the classifier's result, relabelled
WrapperPredict(name, file, size, p) ==
    LET r == Predict(file, p)
    IN  [classifier          |-> name,
         filename            |-> file,
         size_kb             |-> size,
         predicted_category  |-> r.predicted_category,
         folder_name         |-> r.folder_name,
         confidence          |-> r.confidence,
         all_probabilities   |-> r.all_probabilities,
         enhancement_applied |-> NoEnhancement,
         raised              |-> "none"]

\* whether the enhancement rules look at the keywords: a small PDF
IsSmallPdf(file, size) == EndsWith(Lower(file), ".pdf") /\ size < SmallPdfKB

\* the gap test alone, without the test on the two names
TopTwoClose(all_probabilities) ==
    LET sorted_probs == SortedProbs(all_probabilities)
    IN  Abs(sorted_probs[1].prob - sorted_probs[2].prob) < AmbiguityGap

\* whether the two best entries of all_probabilities are Education and Finance,
\* closer than the gap
TopTwoAmbiguous(all_probabilities) ==
    LET sorted_probs == SortedProbs(all_probabilities)
        top1 == sorted_probs[1]
        top2 == sorted_probs[2]
    IN  /\ {top1.name, top2.name} = {"Education", "Finance"}
        /\ Abs(top1.prob - top2.prob) < AmbiguityGap

\* result with result[key] read for the boost; a missing key raises KeyError
Boosted(r, category, boost, floor, note) ==
    IF DictHas(r.all_probabilities, category)
    THEN [r EXCEPT !.predicted_category = category,
                   !.confidence = Max(DictGet(r.all_probabilities, category) + boost, floor),
                   !.enhancement_applied = note]
    ELSE [r EXCEPT !.raised = "KeyError"]

\* a wrapper whose ambiguity test reads the probabilities before the merge
EnhancedPredictOnRaw(file, size, p) ==
    LET r == WrapperPredict("Enhanced Random Forest", file, size, p)
        raw == [i \in 1..Len(classes_) |-> [name |-> classes_[i], prob |-> p[i]]]
        filename_lower == Lower(file)
        edu_score == KeywordScore(edu_indicators, filename_lower)
        finance_score == KeywordScore(finance_indicators, filename_lower)
    IN  IF ~IsSmallPdf(file, size) THEN r
        ELSE IF ~TopTwoAmbiguous(raw) THEN r
        ELSE IF edu_score > finance_score
             THEN Boosted(r, "Education", KeywordBoost, KeywordFloor,
                          "Education boosted due to educational keywords")
        ELSE IF size < VerySmallPdfKB /\ edu_score = finance_score
                /\ DictGet(r.all_probabilities, "Education") > EducationFloor
             THEN Boosted(r, "Education", TieBoost, TieFloor,
                          "Education boosted - small PDF likely educational")
        ELSE r

\* EnhancedRandomForestWrapper.predict
EnhancedPredict(file, size, p) ==
    LET r == WrapperPredict("Enhanced Random Forest", file, size, p)
        filename_lower == Lower(file)
        edu_score == KeywordScore(edu_indicators, filename_lower)
        finance_score == KeywordScore(finance_indicators, filename_lower)
    IN  IF ~IsSmallPdf(file, size) THEN r
        ELSE IF Len(r.all_probabilities) < 2 THEN [r EXCEPT !.raised = "IndexError"]
        ELSE IF ~TopTwoAmbiguous(r.all_probabilities) THEN r
        ELSE IF edu_score > finance_score
             THEN Boosted(r, "Education", KeywordBoost, KeywordFloor,
                          "Education boosted due to educational keywords")
        ELSE IF finance_score > edu_score
             THEN Boosted(r, "Finance", KeywordBoost, KeywordFloor,
                          "Finance boosted due to financial keywords")
        ELSE IF size < VerySmallPdfKB
             THEN IF ~DictHas(r.all_probabilities, "Education")
                  THEN [r EXCEPT !.raised = "KeyError"]
                  ELSE IF DictGet(r.all_probabilities, "Education") > EducationFloor
                       THEN Boosted(r, "Education", TieBoost, TieFloor,
                                    "Education boosted - small PDF likely educational")
                       ELSE r
        ELSE r

-----------------------------------------------------------------------------
(* auto_file_organizer.FileOrganizerHandler                                *)

\* ---- bounds of the organizer model
MaxOrganize == 2       \* _organize_file runs in one behaviour
MaxDeletes == 1        \* external directory deletions in one behaviour
MaxInitialDirs == 2    \* directories under downloads_path at the start

\* self.downloads_path itself, as a destination
DownloadsRoot == "<downloads_path>"

\* directories that may be under downloads_path when the handler is constructed
InitialDirNames ==
    {"Education", "Finance", "education and finance", "Education and Finance", "old movies",
     ".cache"}

\* folder names the classifier's result may carry (values of get_folder_name)
PredictedFolders == {get_folder_name(c) : c \in {"Education", "Finance", "Movies"}}

AllDirNames == InitialDirNames \cup PredictedFolders

\* regular files in downloads_path when the handler is constructed
InitialRootFiles == {"report.pdf", "notes", "movie.part", "Thumbs.db", "tiny.pdf"}

\* what the category folders may hold at the start
SeedFiles == {{}, {"report.pdf", "report_1.pdf", "notes"}}

\* self.ignore_patterns
ignore_patterns ==
    {".tmp", ".temp", ".crdownload", ".part", ".downloading", ".DS_Store", "Thumbs.db",
     ".gitkeep", ".placeholder"}

\* self.min_file_size
min_file_size == 1024

\* st_size of a file of downloads_path, by name
FileBytes(name) ==
    IF name = "notes" THEN 1024 ELSE IF name = "tiny.pdf" THEN 1023 ELSE 2048

\* a filter that does not look at the size of the file
ShouldIgnoreAnySize(name, directories, regular) ==
    \/ LowerOf(PathSuffix(name)) \in ignore_patterns
    \/ name \in ignore_patterns
    \/ name \in directories

\* _should_ignore_file, with the directories and the regular files of
\* downloads_path; stat raises OSError for a path that is neither
ShouldIgnore(name, directories, regular) ==
    \/ LowerOf(PathSuffix(name)) \in ignore_patterns
    \/ name \in ignore_patterns
    \/ name \in directories
    \/ IF name \in regular THEN FileBytes(name) < min_file_size ELSE TRUE

\* the sequences that list every element of S once: the orders a set can iterate in
RECURSIVE Orders(_)
Orders(S) ==
    IF S = {} THEN {<<>>}
    ELSE UNION {{<<x>> \o o : o \in Orders(S \ {x})} : x \in S}

SeqSet(q) == {q[i] : i \in 1..Len(q)}

\* set.add of a new element: it lands anywhere in the iteration order
Inserted(q, x) ==
    {SubSeq(q, 1, i) \o <<x>> \o SubSeq(q, i + 1, Len(q)) : i \in 0..Len(q)}

\* the index of the first element of q, in iteration order, that is in the
\* set matching; 0 if the loop ends without a match
FirstIndex(q, matching) ==
    IF \E i \in 1..Len(q) : q[i] \in matching
    THEN CHOOSE i \in 1..Len(q) : q[i] \in matching /\ \A j \in 1..(i - 1) : q[j] \notin matching
    ELSE 0

\* existing_folder.lower() == folder_name.lower()
SameIgnoringCase(existing_folder, folder_name) ==
    LowerOf(existing_folder) = LowerOf(folder_name)

\* a partial match that looks for the existing name inside the new one only
PartialMatchOneWay(existing_folder, folder_name) ==
    Contains(LowerOf(existing_folder), LowerOf(folder_name))

\* folder_name_lower in existing_lower or existing_lower in folder_name_lower
PartialMatch(existing_folder, folder_name) ==
    \/ Contains(LowerOf(existing_folder), LowerOf(folder_name))
    \/ Contains(LowerOf(folder_name), LowerOf(existing_folder))

\* Path.exists() of downloads_path / name
PathExists(name, onDisk, files) == name \in onDisk \/ name \in files

\* _scan_existing_folders: the sub-directories that are not hidden
ScannedFolders(onDisk) == {d \in onDisk : ~StartsWith(d, ".")}

\* a resolver with one loop: the first folder that matches either way wins
GetOrCreateFolderOneLoop(folder_name, onDisk, files, folders, writable) ==
    LET either == {e \in SeqSet(folders) :
                      SameIgnoringCase(e, folder_name) \/ PartialMatch(e, folder_name)}
        keep(r) == {[result |-> r, dirs |-> onDisk, folders |-> folders]}
    IN  IF PathExists(folder_name, onDisk, files) THEN keep(folder_name)
        ELSE IF FirstIndex(folders, either) # 0
             THEN keep(folders[FirstIndex(folders, either)])
        ELSE IF writable
             THEN {[result |-> folder_name, dirs |-> onDisk \cup {folder_name}, folders |-> f] :
                      f \in Inserted(folders, folder_name)}
        ELSE keep(DownloadsRoot)

\* a resolver that returns downloads_path after it created the folder
GetOrCreateFolderReturnsRoot(folder_name, onDisk, files, folders, writable) ==
    LET same == {e \in SeqSet(folders) : SameIgnoringCase(e, folder_name)}
        partial == {e \in SeqSet(folders) : PartialMatch(e, folder_name)}
        keep(r) == {[result |-> r, dirs |-> onDisk, folders |-> folders]}
    IN  IF PathExists(folder_name, onDisk, files) THEN keep(folder_name)
        ELSE IF FirstIndex(folders, same) # 0 THEN keep(folders[FirstIndex(folders, same)])
        ELSE IF FirstIndex(folders, partial) # 0
             THEN keep(folders[FirstIndex(folders, partial)])
        ELSE IF writable
             THEN {[result |-> DownloadsRoot, dirs |-> onDisk \cup {folder_name},
                    folders |-> f] : f \in Inserted(folders, folder_name)}
        ELSE keep(DownloadsRoot)

\* a resolver that records the name in existing_folders although mkdir raised
GetOrCreateFolderIndexesFailure(folder_name, onDisk, files, folders, writable) ==
    LET same == {e \in SeqSet(folders) : SameIgnoringCase(e, folder_name)}
        partial == {e \in SeqSet(folders) : PartialMatch(e, folder_name)}
        keep(r) == {[result |-> r, dirs |-> onDisk, folders |-> folders]}
    IN  IF PathExists(folder_name, onDisk, files) THEN keep(folder_name)
        ELSE IF FirstIndex(folders, same) # 0 THEN keep(folders[FirstIndex(folders, same)])
        ELSE IF FirstIndex(folders, partial) # 0
             THEN keep(folders[FirstIndex(folders, partial)])
        ELSE IF writable
             THEN {[result |-> folder_name, dirs |-> onDisk \cup {folder_name}, folders |-> f] :
                      f \in Inserted(folders, folder_name)}
        ELSE {[result |-> DownloadsRoot, dirs |-> onDisk, folders |-> f] :
                 f \in Inserted(folders, folder_name)}

\* a resolver without the loop over partial matches
GetOrCreateFolderNoPartialLoop(folder_name, onDisk, files, folders, writable) ==
    LET same == {e \in SeqSet(folders) : SameIgnoringCase(e, folder_name)}
        keep(r) == {[result |-> r, dirs |-> onDisk, folders |-> folders]}
    IN  IF PathExists(folder_name, onDisk, files) THEN keep(folder_name)
        ELSE IF FirstIndex(folders, same) # 0 THEN keep(folders[FirstIndex(folders, same)])
        ELSE IF writable
             THEN {[result |-> folder_name, dirs |-> onDisk \cup {folder_name}, folders |-> f] :
                      f \in Inserted(folders, folder_name)}
        ELSE keep(DownloadsRoot)

\* _get_or_create_folder: the set of outcomes [result, dirs, folders] of one call
GetOrCreateFolder(folder_name, onDisk, files, folders, writable) ==
    LET same == {e \in SeqSet(folders) : SameIgnoringCase(e, folder_name)}
        partial == {e \in SeqSet(folders) : PartialMatch(e, folder_name)}
        keep(r) == {[result |-> r, dirs |-> onDisk, folders |-> folders]}
    IN  IF PathExists(folder_name, onDisk, files) THEN keep(folder_name)
        ELSE IF FirstIndex(folders, same) # 0 THEN keep(folders[FirstIndex(folders, same)])
        ELSE IF FirstIndex(folders, partial) # 0
             THEN keep(folders[FirstIndex(folders, partial)])
        ELSE IF writable
             THEN {[result |-> folder_name, dirs |-> onDisk \cup {folder_name}, folders |-> f] :
                      f \in Inserted(folders, folder_name)}
        ELSE keep(DownloadsRoot)

\* the names under a destination directory: what target_path.exists() consults
ContentsOf(target_folder, onDisk, files, inFolders) ==
    IF target_folder = DownloadsRoot THEN files \cup onDisk
    ELSE IF target_folder \in onDisk THEN inFolders[target_folder]
    ELSE {}

\* f"{stem}_{counter}{suffix}"
Numbered(original, counter) ==
    PathStem(original) \o "_" \o ToString(counter) \o PathSuffix(original)

RECURSIVE ConflictLoop(_, _, _, _)
\* the loop `while target_path.exists()`, from the candidate target_path on
ConflictLoop(contents, original, target_path, counter) ==
    IF target_path \notin contents THEN target_path
    ELSE ConflictLoop(contents, original, Numbered(original, counter), counter + 1)

\* a conflict handler that appends _1 once and does not look again
ResolveConflictOnce(contents, original) ==
    IF original \in contents THEN Numbered(original, 1) ELSE original

\* the name the conflict loop leaves in target_path
ResolveConflict(contents, original) == ConflictLoop(contents, original, original, 1)

-----------------------------------------------------------------------------
(* States in which a part of the program has not run                       *)

NoResult == [raised |-> "not called"]

PredictIdle ==
    /\ probabilities = <<>>
    /\ filename = ""
    /\ size_kb = 0
    /\ stage = "off"
    /\ result = NoResult

NoCall ==
    [made |-> FALSE, name |-> "", result |-> "", dirsBefore |-> {}, filesBefore |-> {},
     foldersBefore |-> <<>>, dirsAfter |-> {}, foldersAfter |-> <<>>,
     repeat |-> FALSE, prevResult |-> ""]

NoConflict == [made |-> FALSE, contents |-> {}, original |-> "", result |-> ""]

NoLocals == [file |-> "", folder_name |-> "", target_folder |-> "", target_path |-> ""]

OrganizeIdle ==
    /\ dirs = {}
    /\ existing_folders = <<>>
    /\ rootWritable = TRUE
    /\ rootFiles = {}
    /\ folderFiles = [d \in AllDirNames |-> {}]
    /\ opc = "off"
    /\ cur = NoLocals
    /\ call = NoCall
    /\ deletedSince = FALSE
    /\ nDeleted = 0
    /\ confl = NoConflict
    /\ history = <<>>
    /\ nOrganized = 0

\* extract_features_from_file has not been called
NoCaller == [by |-> "none", file |-> "", at |-> "", changed |-> FALSE, logged |-> 0]

MonitorIdle ==
    /\ model_file = "valid"
    /\ is_trained = FALSE
    /\ mpc = "off"
    /\ handler = FALSE
    /\ observer = "none"
    /\ file_list = {}
    /\ organized_count = 0
    /\ running = NoCaller
    /\ outcome = <<>>
    /\ growing = {}
    /\ pending = <<>>
    /\ nArrived = 0

FeaturesIdle ==
    /\ feature_names = <<>>
    /\ extension_mapping = <<>>
    /\ file_path = ""
    /\ size_on_disk = 0
    /\ df = <<>>
    /\ fpc = "off"

-----------------------------------------------------------------------------
(* file_classifier_gui_watchdog.FileOrganizerHandler: names and bounds     *)

\* ---- bound of the watch model: on_created events in one behaviour
MaxEvents == 2

\* names of the files that appear in the watched folder
WatchedPaths == {"a.pdf", "a_1.pdf"}

\* folder names the classifier's result may carry for them
WatchFolders == {get_folder_name(c) : c \in {"Finance", "Movies"}}

\* the category folders that exist when the watch starts
WatchDirsAtStart == WatchFolders \ {"Movies"}

\* sizes a watched file passes through while it is written
FileSizes == {1, 2}
NoFile == 0

\* one worker thread per on_created event that passed the guard
Workers == 1..MaxEvents

\* the locals of a worker thread that has not started
NoWorkerLocals ==
    [path |-> "", initial_size |-> NoFile, category |-> "", destination |-> "",
     callbacks |-> <<>>, outcome |-> ""]

\* the thread of _organize_existing_files when it is not running
NoSweep == [pc |-> "off", files |-> {}, path |-> "", category |-> "", destination |-> ""]

\* the number of on_created events delivered so far
TotalEvents == LET a == CHOOSE x \in WatchedPaths : TRUE
               IN  events[a] + events[CHOOSE y \in WatchedPaths \ {a} : TRUE]

WatchIdle ==
    /\ processing_files = {}
    /\ srcSize = [p \in WatchedPaths |-> NoFile]
    /\ events = [p \in WatchedPaths |-> 0]
    /\ wpc = [w \in Workers |-> "off"]
    /\ wloc = [w \in Workers |-> NoWorkerLocals]
    /\ destFiles = [d \in WatchFolders |-> {}]
    /\ classified = [p \in WatchedPaths |-> 0]
    /\ moveCalls = [p \in WatchedPaths |-> 0]
    /\ mkdirs = [d \in WatchFolders |-> 0]
    /\ watch_state = "watching"
    /\ sweep = NoSweep

-----------------------------------------------------------------------------
(* auto_file_organizer.FileOrganizerHandler: the handler, one file at a    *)
(* time (watchdog delivers its events on one thread, and the batch pass    *)
(* runs before the observer starts).                                       *)

\* the state after FileOrganizerHandler.__init__
OrganizeInit ==
    /\ dirs \in {D \in SUBSET InitialDirNames : Cardinality(D) <= MaxInitialDirs}
    /\ existing_folders \in Orders(ScannedFolders(dirs))
    /\ rootWritable \in BOOLEAN
    /\ rootFiles = InitialRootFiles
    /\ \E seed \in SeedFiles :
           folderFiles = [d \in AllDirNames |-> IF d \in dirs THEN seed ELSE {}]
    /\ opc = "idle"
    /\ cur = NoLocals
    /\ call = NoCall
    /\ deletedSince = FALSE
    /\ nDeleted = 0
    /\ confl = NoConflict
    /\ history = <<>>
    /\ nOrganized = 0

\* _organize_file entered for a file that _should_ignore_file rejects
IgnoreFile(f) ==
    /\ opc = "idle"
    /\ nOrganized < MaxOrganize
    /\ f \in rootFiles
    /\ ShouldIgnore(f, dirs, rootFiles)
    /\ nOrganized' = nOrganized + 1
    /\ UNCHANGED <<dirs, existing_folders, rootWritable, rootFiles, folderFiles, opc, cur,
                   call, deletedSince, nDeleted, confl, history>>
    /\ UNCHANGED <<predictVars, watchVars, featureVars, monitorVars>>

\* _organize_file entered for a file that passes the ignore filter
BeginOrganize(f) ==
    /\ opc = "idle"
    /\ nOrganized < MaxOrganize
    /\ f \in rootFiles
    /\ ~ShouldIgnore(f, dirs, rootFiles)
    /\ nOrganized' = nOrganized + 1
    /\ cur' = [NoLocals EXCEPT !.file = f]
    /\ opc' = "classify"
    /\ UNCHANGED <<dirs, existing_folders, rootWritable, rootFiles, folderFiles,
                   call, deletedSince, nDeleted, confl, history>>
    /\ UNCHANGED <<predictVars, watchVars, featureVars, monitorVars>>

\* self.classifier.predict returns; the model's answer is any folder name
Classify(folder) ==
    /\ opc = "classify"
    /\ folder \in PredictedFolders
    /\ cur' = [cur EXCEPT !.folder_name = folder]
    /\ opc' = "resolve"
    /\ UNCHANGED <<dirs, existing_folders, rootWritable, rootFiles, folderFiles,
                   call, deletedSince, nDeleted, confl, history, nOrganized>>
    /\ UNCHANGED <<predictVars, watchVars, featureVars, monitorVars>>

\* an except clause that also writes a record to organized_files.log
ClassifyRaisesAndRecords ==
    /\ opc = "classify"
    /\ history' = Append(history, [file |-> cur.file, folder |-> ""])
    /\ cur' = NoLocals
    /\ opc' = "idle"
    /\ UNCHANGED <<dirs, existing_folders, rootWritable, rootFiles, folderFiles,
                   call, deletedSince, nDeleted, confl, nOrganized>>
    /\ UNCHANGED <<predictVars, watchVars, featureVars, monitorVars>>

\* self.classifier.predict raises: the outer except logs it
ClassifyRaises ==
    /\ opc = "classify"
    /\ cur' = NoLocals
    /\ opc' = "idle"
    /\ UNCHANGED <<dirs, existing_folders, rootWritable, rootFiles, folderFiles,
                   call, deletedSince, nDeleted, confl, history, nOrganized>>
    /\ UNCHANGED <<predictVars, watchVars, featureVars, monitorVars>>

\* target_folder = self._get_or_create_folder(folder_name)
ResolveFolder ==
    /\ opc = "resolve"
    /\ \E o \in GetOrCreateFolder(cur.folder_name, dirs, rootFiles, existing_folders,
                                  rootWritable) :
           /\ dirs' = o.dirs
           /\ existing_folders' = o.folders
           /\ cur' = [cur EXCEPT !.target_folder = o.result]
           /\ call' = [made |-> TRUE, name |-> cur.folder_name, result |-> o.result,
                       dirsBefore |-> dirs, filesBefore |-> rootFiles,
                       foldersBefore |-> existing_folders,
                       dirsAfter |-> o.dirs, foldersAfter |-> o.folders,
                       repeat |-> call.made /\ call.name = cur.folder_name /\ ~deletedSince,
                       prevResult |-> call.result]
    /\ deletedSince' = FALSE
    /\ opc' = "conflict"
    /\ UNCHANGED <<rootWritable, rootFiles, folderFiles, nDeleted, confl, history,
                   nOrganized>>
    /\ UNCHANGED <<predictVars, watchVars, featureVars, monitorVars>>

\* the conflict loop on target_path
HandleConflict ==
    /\ opc = "conflict"
    /\ LET contents == ContentsOf(cur.target_folder, dirs, rootFiles, folderFiles)
           target_path == ResolveConflict(contents, cur.file)
       IN  /\ cur' = [cur EXCEPT !.target_path = target_path]
           /\ confl' = [made |-> TRUE, contents |-> contents, original |-> cur.file,
                        result |-> target_path]
    /\ opc' = "move"
    /\ UNCHANGED <<dirs, existing_folders, rootWritable, rootFiles, folderFiles,
                   call, deletedSince, nDeleted, history, nOrganized>>
    /\ UNCHANGED <<predictVars, watchVars, featureVars, monitorVars>>

\* whether shutil.move can place a file in target_folder
CanMoveInto(target_folder) == target_folder = DownloadsRoot \/ target_folder \in dirs

\* the files that arrive in downloads_path while the observer runs
NewFiles == {"new.pdf", "new.part"}

\* shutil.move succeeds and the record is appended to organized_files.log; a
\* move that stays inside downloads_path, the directory the observer watches,
\* makes the observer queue a moved event for the new name (the model follows
\* this for the files that arrived, not for the renamed ones)
MoveFile ==
    /\ opc = "move"
    /\ CanMoveInto(cur.target_folder)
    /\ IF cur.target_folder = DownloadsRoot
       THEN /\ rootFiles' = (rootFiles \ {cur.file}) \cup {cur.target_path}
            /\ UNCHANGED folderFiles
       ELSE /\ rootFiles' = rootFiles \ {cur.file}
            /\ folderFiles' = [folderFiles EXCEPT ![cur.target_folder] = @ \cup {cur.target_path}]
    /\ history' = Append(history, [file |-> cur.file, folder |-> cur.folder_name])
    /\ pending' = IF observer = "started" /\ cur.target_folder = DownloadsRoot
                     /\ cur.file \in NewFiles
                  THEN Append(pending, [kind |-> "moved", file |-> cur.target_path])
                  ELSE pending
    /\ cur' = NoLocals
    /\ opc' = "idle"
    /\ UNCHANGED <<dirs, existing_folders, rootWritable, call, deletedSince, nDeleted,
                   confl, nOrganized>>
    /\ UNCHANGED <<model_file, is_trained, mpc, handler, observer, file_list,
                   organized_count, running, outcome, growing, nArrived>>
    /\ UNCHANGED <<predictVars, watchVars, featureVars>>

\* shutil.move raises (the destination directory is gone): the inner except logs it
MoveFails ==
    /\ opc = "move"
    /\ ~CanMoveInto(cur.target_folder)
    /\ cur' = NoLocals
    /\ opc' = "idle"
    /\ UNCHANGED <<dirs, existing_folders, rootWritable, rootFiles, folderFiles,
                   call, deletedSince, nDeleted, confl, history, nOrganized>>
    /\ UNCHANGED <<predictVars, watchVars, featureVars, monitorVars>>

\* a deletion after which the handler forgets the deleted name
ExternalDeleteForgets(d) ==
    /\ opc # "off"
    /\ nDeleted < MaxDeletes
    /\ d \in dirs
    /\ dirs' = dirs \ {d}
    /\ folderFiles' = [folderFiles EXCEPT ![d] = {}]
    /\ existing_folders' = SelectSeq(existing_folders, LAMBDA e : e # d)
    /\ deletedSince' = TRUE
    /\ nDeleted' = nDeleted + 1
    /\ UNCHANGED <<rootWritable, rootFiles, opc, cur, call, confl, history, nOrganized>>
    /\ UNCHANGED <<predictVars, watchVars, featureVars, monitorVars>>

\* the user deletes a directory of downloads_path, with what is in it
ExternalDelete(d) ==
    /\ opc # "off"
    /\ nDeleted < MaxDeletes
    /\ d \in dirs
    /\ dirs' = dirs \ {d}
    /\ folderFiles' = [folderFiles EXCEPT ![d] = {}]
    /\ deletedSince' = TRUE
    /\ nDeleted' = nDeleted + 1
    /\ UNCHANGED <<existing_folders, rootWritable, rootFiles, opc, cur, call, confl,
                   history, nOrganized>>
    /\ UNCHANGED <<predictVars, watchVars, featureVars, monitorVars>>

-----------------------------------------------------------------------------
OrganizeNext ==
    \/ \E f \in rootFiles : IgnoreFile(f)
    \/ \E f \in rootFiles : BeginOrganize(f)
    \/ \E folder \in PredictedFolders : Classify(folder)
    \/ ClassifyRaises
    \/ ResolveFolder
    \/ HandleConflict
    \/ MoveFile
    \/ MoveFails
    \/ \E d \in dirs : ExternalDelete(d)

\* the handler is constructed; no classifier call and no watch worker is modelled
OrganizeStart == OrganizeInit /\ PredictIdle /\ WatchIdle /\ FeaturesIdle /\ MonitorIdle

SpecOrganize ==
    /\ OrganizeStart
    /\ [][OrganizeNext]_vars

-----------------------------------------------------------------------------
(* The classifier and its wrappers, applied to one input                   *)

\* ---- bound of the classifier model: classes with a non-zero probability
MaxSupport == 3

\* the probabilities the model may return for one class, in hundredths
ProbGrid == {0, 10, 20, 30, 40, 50, 60, 70, 80, 90, 100}

RECURSIVE RawVectors(_, _, _)
\* the vectors over the first n classes that sum to mass with at most k non-zero entries
RawVectors(n, mass, k) ==
    IF n = 0 THEN (IF mass = 0 THEN {<<>>} ELSE {})
    ELSE UNION {{Append(v, x) : v \in RawVectors(n - 1, mass - x, IF x = 0 THEN k ELSE k - 1)} :
                   x \in {y \in ProbGrid : y <= mass /\ (y = 0 \/ k > 0)}}

\* names and sizes (KiB) of the files given to predict
FileNames == {"tax_invoice_2024.pdf", "lecture_notes.pdf", "scan.PDF", "avengers_movie.mp4"}
SizesKB == {50, 8192, 51200}

RECURSIVE SeqSum(_)
SeqSum(q) == IF q = <<>> THEN 0 ELSE Head(q) + SeqSum(Tail(q))

\* predict_proba has returned for some file
PredictInit ==
    /\ probabilities \in RawVectors(Len(classes_), 100, MaxSupport)
    /\ filename \in FileNames
    /\ size_kb \in SizesKB
    /\ stage = "input"
    /\ result = NoResult

\* RandomForestFileClassifier.predict(file_path)
RFPredict ==
    /\ stage = "input"
    /\ result' = Predict(filename, probabilities)
    /\ stage' = "rf"
    /\ UNCHANGED <<probabilities, filename, size_kb>>
    /\ UNCHANGED <<organizeVars, watchVars, featureVars, monitorVars>>

\* RandomForestClassifierWrapper.predict(filename, size_mb)
RFWrapperPredict ==
    /\ stage = "input"
    /\ result' = WrapperPredict("Random Forest", filename, size_kb, probabilities)
    /\ stage' = "wrapper"
    /\ UNCHANGED <<probabilities, filename, size_kb>>
    /\ UNCHANGED <<organizeVars, watchVars, featureVars, monitorVars>>

\* EnhancedRandomForestWrapper.predict(filename, size_mb)
EnhancedWrapperPredict ==
    /\ stage = "input"
    /\ result' = EnhancedPredict(filename, size_kb, probabilities)
    /\ stage' = "enhanced"
    /\ UNCHANGED <<probabilities, filename, size_kb>>
    /\ UNCHANGED <<organizeVars, watchVars, featureVars, monitorVars>>

PredictNext ==
    \/ RFPredict
    \/ RFWrapperPredict
    \/ EnhancedWrapperPredict

\* one input is given to the classifiers; the handlers are not running
PredictStart == PredictInit /\ OrganizeIdle /\ WatchIdle /\ FeaturesIdle /\ MonitorIdle

SpecPredict ==
    /\ PredictStart
    /\ [][PredictNext]_vars

-----------------------------------------------------------------------------
(* Properties of the classifier and its wrappers (SpecPredict)             *)

\* the raw probability of a class
Raw(name) == probabilities[ClassIndex(name)]

\* the raw distribution as items, in the order of classes_
RawItems == [i \in 1..Len(classes_) |-> [name |-> classes_[i], prob |-> probabilities[i]]]

\* C7: the all_probabilities map returned by RandomForestFileClassifier.predict
\* has the same total as the raw vector, has no Finance entry, has an Education
\* entry equal to raw Education + raw Finance, and gives every other category
\* its raw probability.
C7_MergeKeepsTotal ==
    stage = "rf" =>
        LET d == result.all_probabilities
        IN  /\ DictSum(d) = SeqSum(probabilities)
            /\ DictKeys(d) = {classes_[i] : i \in 1..Len(classes_)} \ {"Finance"}
            /\ Len(d) = Cardinality(DictKeys(d))
            /\ DictGet(d, "Education") = Raw("Education") + Raw("Finance")
            /\ \A k \in DictKeys(d) \ {"Education"} : DictGet(d, k) = Raw(k)

\* C7 witness: predict has returned for a vector with both raw Education and raw
\* Finance non-zero
C7_Witness ==
    /\ stage = "rf"
    /\ Raw("Education") > 0
    /\ Raw("Finance") > 0
    /\ DictGet(result.all_probabilities, "Education") = Raw("Education") + Raw("Finance")

\* C8 (as claimed): the predicted_category returned by
\* RandomForestFileClassifier.predict has the highest probability of the
\* post-merge distribution.
C8_PickIsPostMergeTop ==
    stage = "rf" =>
        \A k \in DictKeys(result.all_probabilities) :
            DictGet(result.all_probabilities, k)
                <= DictGet(result.all_probabilities, result.predicted_category)

\* C9 (as claimed): the confidence returned by RandomForestFileClassifier.predict
\* is the post-merge probability of the returned predicted_category.
C9_ConfidenceIsMergedProbability ==
    stage = "rf" =>
        result.confidence = DictGet(result.all_probabilities, result.predicted_category)

\* the condition under which the keyword override is allowed: a small PDF whose
\* two highest raw probabilities are Education and Finance, less than the gap apart
OverrideAllowed ==
    /\ IsSmallPdf(filename, size_kb)
    /\ TopTwoAmbiguous(RawItems)

\* the result of the baseline: the unmodified top-1 pick
Baseline == WrapperPredict("Enhanced Random Forest", filename, size_kb, probabilities)

\* C10: outside the Education/Finance ambiguity condition,
\* EnhancedRandomForestWrapper.predict returns exactly the baseline result: same
\* category, same folder name, same confidence, no override annotation.
C10_NoOverrideOutsideAmbiguity ==
    (stage = "enhanced" /\ ~OverrideAllowed) =>
        /\ result = Baseline
        /\ result.enhancement_applied = NoEnhancement
        /\ result.raised = "none"

\* C10 witness: avengers_movie.mp4, 8 MB, Movies on top at 0.8: folder Movies,
\* confidence 0.8
C10_Witness ==
    /\ stage = "enhanced"
    /\ filename = "avengers_movie.mp4"
    /\ Raw("Movies") = 80
    /\ ~OverrideAllowed
    /\ result.predicted_category = "Movies"
    /\ result.folder_name = "Movies"
    /\ result.confidence = 80

\* C10 witness of the other kind: a small PDF with keywords whose two best
\* classes are not Education and Finance
C10_WitnessSmallPdf ==
    /\ stage = "enhanced"
    /\ filename = "lecture_notes.pdf"
    /\ size_kb = 50
    /\ Raw("Education") = 50
    /\ Raw("Movies") = 50
    /\ result = Baseline

-----------------------------------------------------------------------------
(* file_classifier_gui_watchdog.FileOrganizerHandler: on_created runs on   *)
(* the observer thread and starts one worker thread per event it accepts;  *)
(* the workers run _process_file_delayed concurrently.                     *)

\* the state after FileOrganizerHandler.__init__, nothing downloaded yet
WatchInit ==
    /\ processing_files = {}
    /\ srcSize = [p \in WatchedPaths |-> NoFile]
    /\ events = [p \in WatchedPaths |-> 0]
    /\ wpc = [w \in Workers |-> "unused"]
    /\ wloc = [w \in Workers |-> NoWorkerLocals]
    /\ destFiles = [d \in WatchFolders |-> IF d \in WatchDirsAtStart THEN {"a.pdf"} ELSE {}]
    /\ classified = [p \in WatchedPaths |-> 0]
    /\ moveCalls = [p \in WatchedPaths |-> 0]
    /\ mkdirs = [d \in WatchFolders |-> 0]
    /\ watch_state = "watching"
    /\ sweep = NoSweep

\* a download starts writing the file at p (each path is downloaded once)
FileAppears(p) ==
    /\ watch_state # "closed"
    /\ srcSize[p] = NoFile
    /\ events[p] = 0
    /\ srcSize' = [srcSize EXCEPT ![p] = 1]
    /\ UNCHANGED <<processing_files, events, wpc, wloc, destFiles, classified, moveCalls>>
    /\ UNCHANGED <<mkdirs, watch_state, sweep>>
    /\ UNCHANGED <<predictVars, organizeVars, featureVars, monitorVars>>

\* the download writes more of the file
FileGrows(p) ==
    /\ watch_state # "closed"
    /\ srcSize[p] # NoFile
    /\ srcSize[p] + 1 \in FileSizes
    /\ srcSize' = [srcSize EXCEPT ![p] = @ + 1]
    /\ UNCHANGED <<processing_files, events, wpc, wloc, destFiles, classified, moveCalls>>
    /\ UNCHANGED <<mkdirs, watch_state, sweep>>
    /\ UNCHANGED <<predictVars, organizeVars, featureVars, monitorVars>>

\* the user deletes or moves away the file at p
FileRemoved(p) ==
    /\ watch_state # "closed"
    /\ srcSize[p] # NoFile
    /\ srcSize' = [srcSize EXCEPT ![p] = NoFile]
    /\ UNCHANGED <<processing_files, events, wpc, wloc, destFiles, classified, moveCalls>>
    /\ UNCHANGED <<mkdirs, watch_state, sweep>>
    /\ UNCHANGED <<predictVars, organizeVars, featureVars, monitorVars>>

\* the worker slot the next threading.Thread gets
NextWorker == CHOOSE w \in Workers : wpc[w] = "unused" /\ \A v \in 1..(w - 1) : wpc[v] # "unused"

\* on_created: drop the event if the path is in processing_files, else start a
\* thread on _process_file_delayed
on_created(p) ==
    /\ watch_state = "watching"
    /\ TotalEvents < MaxEvents
    /\ srcSize[p] # NoFile
    /\ events' = [events EXCEPT ![p] = @ + 1]
    /\ IF p \in processing_files
       THEN UNCHANGED <<wpc, wloc>>
       ELSE /\ wpc' = [wpc EXCEPT ![NextWorker] = "sleep1"]
            /\ wloc' = [wloc EXCEPT ![NextWorker] = [NoWorkerLocals EXCEPT !.path = p]]
    /\ UNCHANGED <<processing_files, srcSize, destFiles, classified, moveCalls>>
    /\ UNCHANGED <<mkdirs, watch_state, sweep>>
    /\ UNCHANGED <<predictVars, organizeVars, featureVars, monitorVars>>

\* _process_file_delayed after time.sleep(1): return if the file is gone
CheckExists(w) ==
    /\ watch_state # "closed"
    /\ wpc[w] = "sleep1"
    /\ wpc' = [wpc EXCEPT ![w] = IF srcSize[wloc[w].path] = NoFile THEN "done" ELSE "getsize"]
    /\ UNCHANGED <<processing_files, srcSize, events, wloc, destFiles, classified, moveCalls>>
    /\ UNCHANGED <<mkdirs, watch_state, sweep>>
    /\ UNCHANGED <<predictVars, organizeVars, featureVars, monitorVars>>

\* initial_size = os.path.getsize(file_path); OSError if the file is gone
ReadInitialSize(w) ==
    /\ watch_state # "closed"
    /\ wpc[w] = "getsize"
    /\ IF srcSize[wloc[w].path] = NoFile
       THEN /\ wpc' = [wpc EXCEPT ![w] = "finally"]
            /\ UNCHANGED wloc
       ELSE /\ wpc' = [wpc EXCEPT ![w] = "sleep2"]
            /\ wloc' = [wloc EXCEPT ![w].initial_size = srcSize[wloc[w].path]]
    /\ UNCHANGED <<processing_files, srcSize, events, destFiles, classified, moveCalls>>
    /\ UNCHANGED <<mkdirs, watch_state, sweep>>
    /\ UNCHANGED <<predictVars, organizeVars, featureVars, monitorVars>>

\* after time.sleep(0.5): return if the size changed, else
\* processing_files.add(file_path) and enter _organize_file
CheckStableAndAdd(w) ==
    /\ watch_state # "closed"
    /\ wpc[w] = "sleep2"
    /\ IF srcSize[wloc[w].path] # wloc[w].initial_size
       THEN /\ wpc' = [wpc EXCEPT ![w] = "finally"]
            /\ UNCHANGED processing_files
       ELSE /\ wpc' = [wpc EXCEPT ![w] = "classify"]
            /\ processing_files' = processing_files \cup {wloc[w].path}
    /\ UNCHANGED <<srcSize, events, wloc, destFiles, classified, moveCalls>>
    /\ UNCHANGED <<mkdirs, watch_state, sweep>>
    /\ UNCHANGED <<predictVars, organizeVars, featureVars, monitorVars>>

\* whether the category folder is on disk
FolderOnDisk(folder) == folder \in WatchDirsAtStart \/ mkdirs[folder] > 0

\* a worker whose makedirs creates the directory without looking for it
ClassifyFileAlwaysCreates(w) ==
    /\ watch_state # "closed"
    /\ wpc[w] = "classify"
    /\ \E folder \in WatchFolders :
           /\ wloc' = [wloc EXCEPT ![w].category = folder,
                                   ![w].callbacks = Append(@, "Auto-organizing")]
           /\ mkdirs' = [mkdirs EXCEPT ![folder] = @ + 1]
    /\ classified' = [classified EXCEPT ![wloc[w].path] = @ + 1]
    /\ wpc' = [wpc EXCEPT ![w] = "conflict"]
    /\ UNCHANGED <<processing_files, srcSize, events, destFiles, moveCalls>>
    /\ UNCHANGED <<watch_state, sweep>>
    /\ UNCHANGED <<predictVars, organizeVars, featureVars, monitorVars>>

\* _organize_file: classifier.predict, result['folder_name'], and
\* os.makedirs(category_folder, exist_ok=True), whose mkdir creates the
\* directory for one caller only
ClassifyFile(w) ==
    /\ watch_state # "closed"
    /\ wpc[w] = "classify"
    /\ \E folder \in WatchFolders :
           /\ wloc' = [wloc EXCEPT ![w].category = folder,
                                   ![w].callbacks = Append(@, "Auto-organizing")]
           /\ mkdirs' = [mkdirs EXCEPT ![folder] = IF FolderOnDisk(folder) THEN @ ELSE @ + 1]
    /\ classified' = [classified EXCEPT ![wloc[w].path] = @ + 1]
    /\ wpc' = [wpc EXCEPT ![w] = "conflict"]
    /\ UNCHANGED <<processing_files, srcSize, events, destFiles, moveCalls>>
    /\ UNCHANGED <<watch_state, sweep>>
    /\ UNCHANGED <<predictVars, organizeVars, featureVars, monitorVars>>

\* f"{base_name}_{counter}{ext}" with base_name, ext = os.path.splitext(name)
NumberedSplitext(original, counter) ==
    SplitextRoot(original) \o "_" \o ToString(counter) \o SplitextExt(original)

RECURSIVE DestinationLoop(_, _, _, _)
\* while os.path.exists(destination): destination = new_name; counter += 1
DestinationLoop(contents, original, destination, counter) ==
    IF destination \notin contents THEN destination
    ELSE DestinationLoop(contents, original, NumberedSplitext(original, counter), counter + 1)

\* _organize_file: the name-conflict loop over the category folder
HandleNameConflict(w) ==
    /\ watch_state # "closed"
    /\ wpc[w] = "conflict"
    /\ wloc' = [wloc EXCEPT ![w].destination =
                    DestinationLoop(destFiles[wloc[w].category], wloc[w].path, wloc[w].path, 1)]
    /\ wpc' = [wpc EXCEPT ![w] = "move"]
    /\ UNCHANGED <<processing_files, srcSize, events, destFiles, classified, moveCalls>>
    /\ UNCHANGED <<mkdirs, watch_state, sweep>>
    /\ UNCHANGED <<predictVars, organizeVars, featureVars, monitorVars>>

\* shutil.move(file_path, destination); it raises if the source is gone, and
\* the exception is caught in _organize_file
MoveToCategory(w) ==
    /\ watch_state # "closed"
    /\ wpc[w] = "move"
    /\ moveCalls' = [moveCalls EXCEPT ![wloc[w].path] = @ + 1]
    /\ IF srcSize[wloc[w].path] = NoFile
       THEN /\ wloc' = [wloc EXCEPT ![w].outcome = "raised"]
            /\ UNCHANGED <<srcSize, destFiles>>
       ELSE /\ srcSize' = [srcSize EXCEPT ![wloc[w].path] = NoFile]
            /\ destFiles' = [destFiles EXCEPT ![wloc[w].category] = @ \cup {wloc[w].destination}]
            /\ wloc' = [wloc EXCEPT ![w].outcome = "moved",
                                     ![w].callbacks = Append(@, "Moved to")]
    /\ wpc' = [wpc EXCEPT ![w] = "finally"]
    /\ UNCHANGED <<processing_files, events, classified>>
    /\ UNCHANGED <<mkdirs, watch_state, sweep>>
    /\ UNCHANGED <<predictVars, organizeVars, featureVars, monitorVars>>

\* a worker that ends without the finally clause
FinishWithoutDiscard(w) ==
    /\ watch_state # "closed"
    /\ wpc[w] = "finally"
    /\ wpc' = [wpc EXCEPT ![w] = "done"]
    /\ UNCHANGED <<processing_files, srcSize, events, wloc, destFiles, classified, moveCalls>>
    /\ UNCHANGED <<mkdirs, watch_state, sweep>>
    /\ UNCHANGED <<predictVars, organizeVars, featureVars, monitorVars>>

\* finally: processing_files.discard(file_path)
DiscardInFlight(w) ==
    /\ watch_state # "closed"
    /\ wpc[w] = "finally"
    /\ processing_files' = processing_files \ {wloc[w].path}
    /\ wpc' = [wpc EXCEPT ![w] = "done"]
    /\ UNCHANGED <<srcSize, events, wloc, destFiles, classified, moveCalls>>
    /\ UNCHANGED <<mkdirs, watch_state, sweep>>
    /\ UNCHANGED <<predictVars, organizeVars, featureVars, monitorVars>>

\* stop_watchdog: the observer is stopped and joined; the worker threads that
\* on_created started are not touched
StopWatchdog ==
    /\ watch_state = "watching"
    /\ watch_state' = "stopped"
    /\ UNCHANGED <<processing_files, srcSize, events, wpc, wloc, destFiles, classified,
                   moveCalls, mkdirs, sweep>>
    /\ UNCHANGED <<predictVars, organizeVars, featureVars, monitorVars>>

\* on_closing: stop_watchdog if watching, then root.destroy(); mainloop and
\* main return and the interpreter ends, with it every daemon thread still running
CloseWindow ==
    /\ watch_state # "closed"
    /\ watch_state' = "closed"
    /\ wpc' = [w \in Workers |-> IF wpc[w] \in {"unused", "done"} THEN wpc[w] ELSE "killed"]
    /\ sweep' = IF sweep.pc \in {"off", "done"} THEN sweep ELSE [sweep EXCEPT !.pc = "killed"]
    /\ UNCHANGED <<processing_files, srcSize, events, wloc, destFiles, classified,
                   moveCalls, mkdirs>>
    /\ UNCHANGED <<predictVars, organizeVars, featureVars, monitorVars>>

WatchNext ==
    \/ StopWatchdog
    \/ CloseWindow
    \/ \E p \in WatchedPaths : FileAppears(p)
    \/ \E p \in WatchedPaths : FileGrows(p)
    \/ \E p \in WatchedPaths : FileRemoved(p)
    \/ \E p \in WatchedPaths : on_created(p)
    \/ \E w \in Workers : CheckExists(w)
    \/ \E w \in Workers : ReadInitialSize(w)
    \/ \E w \in Workers : CheckStableAndAdd(w)
    \/ \E w \in Workers : ClassifyFile(w)
    \/ \E w \in Workers : HandleNameConflict(w)
    \/ \E w \in Workers : MoveToCategory(w)
    \/ \E w \in Workers : DiscardInFlight(w)

\* the watch handler is constructed; the other parts are not running
WatchStart == WatchInit /\ PredictIdle /\ OrganizeIdle /\ FeaturesIdle /\ MonitorIdle

SpecWatch ==
    /\ WatchStart
    /\ [][WatchNext]_vars

\* what one worker thread does next, whatever its position
WorkerStep(w) ==
    \/ CheckExists(w)
    \/ ReadInitialSize(w)
    \/ CheckStableAndAdd(w)
    \/ ClassifyFile(w)
    \/ HandleNameConflict(w)
    \/ MoveToCategory(w)
    \/ DiscardInFlight(w)

\* the watch under a fair scheduler: a worker thread that can take a step
\* is not left waiting for ever
SpecWatchFair ==
    /\ WatchStart
    /\ [][WatchNext]_vars
    /\ \A w \in Workers : WF_vars(WorkerStep(w))

-----------------------------------------------------------------------------
(* ModernFileOrganizerWithWatchdog._organize_existing_files: the thread    *)
(* start_watchdog starts right after observer.start(); it runs beside the  *)
(* worker threads of the handler.                                          *)

\* start_watchdog has started the observer and the thread of organize_worker
SweepInit ==
    /\ processing_files = {}
    /\ srcSize = [p \in WatchedPaths |-> NoFile]
    /\ events = [p \in WatchedPaths |-> 0]
    /\ wpc = [w \in Workers |-> "unused"]
    /\ wloc = [w \in Workers |-> NoWorkerLocals]
    /\ destFiles = [d \in WatchFolders |-> IF d \in WatchDirsAtStart THEN {"a.pdf"} ELSE {}]
    /\ classified = [p \in WatchedPaths |-> 0]
    /\ moveCalls = [p \in WatchedPaths |-> 0]
    /\ mkdirs = [d \in WatchFolders |-> 0]
    /\ watch_state = "watching"
    /\ sweep = [NoSweep EXCEPT !.pc = "start"]

\* the loop `for file_path in files` takes its next entry, or ends
SweepAdvance(files) ==
    IF files = {}
    THEN sweep' = [NoSweep EXCEPT !.pc = "done"]
    ELSE \E f \in files :
             sweep' = [pc |-> "classify", files |-> files \ {f}, path |-> f,
                       category |-> "", destination |-> ""]

\* files = the regular files os.listdir finds; the loop starts
SweepList ==
    /\ watch_state # "closed"
    /\ sweep.pc = "start"
    /\ SweepAdvance({p \in WatchedPaths : srcSize[p] # NoFile})
    /\ UNCHANGED <<processing_files, srcSize, events, wpc, wloc, destFiles, classified,
                   moveCalls, mkdirs, watch_state>>
    /\ UNCHANGED <<predictVars, organizeVars, featureVars, monitorVars>>

\* self.classifier.predict(file_path), result['folder_name'], os.makedirs
SweepClassify ==
    /\ watch_state # "closed"
    /\ sweep.pc = "classify"
    /\ \E folder \in WatchFolders :
           /\ sweep' = [sweep EXCEPT !.category = folder, !.pc = "conflict"]
           /\ mkdirs' = [mkdirs EXCEPT ![folder] = IF FolderOnDisk(folder) THEN @ ELSE @ + 1]
    /\ classified' = [classified EXCEPT ![sweep.path] = @ + 1]
    /\ UNCHANGED <<processing_files, srcSize, events, wpc, wloc, destFiles, moveCalls,
                   watch_state>>
    /\ UNCHANGED <<predictVars, organizeVars, featureVars, monitorVars>>

\* the name-conflict loop of organize_worker
SweepConflict ==
    /\ watch_state # "closed"
    /\ sweep.pc = "conflict"
    /\ sweep' = [sweep EXCEPT !.destination =
                     DestinationLoop(destFiles[sweep.category], sweep.path, sweep.path, 1),
                               !.pc = "move"]
    /\ UNCHANGED <<processing_files, srcSize, events, wpc, wloc, destFiles, classified,
                   moveCalls, mkdirs, watch_state>>
    /\ UNCHANGED <<predictVars, organizeVars, featureVars, monitorVars>>

\* shutil.move(file_path, destination); if it raises, the except clause prints
\* and the loop continues
SweepMove ==
    /\ watch_state # "closed"
    /\ sweep.pc = "move"
    /\ moveCalls' = [moveCalls EXCEPT ![sweep.path] = @ + 1]
    /\ IF srcSize[sweep.path] = NoFile
       THEN UNCHANGED <<srcSize, destFiles>>
       ELSE /\ srcSize' = [srcSize EXCEPT ![sweep.path] = NoFile]
            /\ destFiles' = [destFiles EXCEPT ![sweep.category] = @ \cup {sweep.destination}]
    /\ SweepAdvance(sweep.files)
    /\ UNCHANGED <<processing_files, events, wpc, wloc, classified, mkdirs, watch_state>>
    /\ UNCHANGED <<predictVars, organizeVars, featureVars, monitorVars>>

\* the watch and the batch pass while the user neither stops the watch nor
\* removes a file
SweepNext ==
    \/ \E p \in WatchedPaths : FileAppears(p)
    \/ \E p \in WatchedPaths : FileGrows(p)
    \/ \E p \in WatchedPaths : on_created(p)
    \/ \E w \in Workers : WorkerStep(w)
    \/ SweepList
    \/ SweepClassify
    \/ SweepConflict
    \/ SweepMove

\* the watch has just been started; the other parts are not running
SweepStart == SweepInit /\ PredictIdle /\ OrganizeIdle /\ FeaturesIdle /\ MonitorIdle

SpecSweep ==
    /\ SweepStart
    /\ [][SweepNext]_vars

-----------------------------------------------------------------------------
(* Properties of the watch handler (SpecWatch)                             *)

\* the workers that are inside _organize_file for path p
Organizing(p) ==
    {w \in Workers : wloc[w].path = p /\ wpc[w] \in {"classify", "conflict", "move"}}

\* C1: on_created events for one path, delivered while a worker for it has
\* not finished, lead to at most one classification and at most one move of
\* that path.
C1_DuplicateEventMovesOnce ==
    \A p \in WatchedPaths : classified[p] <= 1 /\ moveCalls[p] <= 1

\* C2: in every reachable state at most one worker is inside _organize_file
\* (classifying, resolving the name or moving) for a given path.
C2_OneWorkerPerPath ==
    \A p \in WatchedPaths : Cardinality(Organizing(p)) <= 1

-----
(* Properties of the folder resolver and the conflict loop (SpecOrganize)   *)

\* the FolderIndex the last _get_or_create_folder call started from
IndexBefore == SeqSet(call.foldersBefore)

\* its entries that equal the requested name when case is ignored
CaseMatches == {e \in IndexBefore : LowerOf(e) = LowerOf(call.name)}

\* its entries that contain the requested name or are contained in it
SubstringMatches ==
    {e \in IndexBefore : \/ Contains(LowerOf(call.name), LowerOf(e))
                         \/ Contains(LowerOf(e), LowerOf(call.name))}

\* the call changed neither the disk nor the index
CallChangedNothing ==
    /\ call.dirsAfter = call.dirsBefore
    /\ call.foldersAfter = call.foldersBefore

\* the call created the requested directory and recorded it, or fell back to
\* downloads_path
CallCreatedOrFellBack ==
    \/ /\ call.result = call.name
       /\ call.dirsAfter = call.dirsBefore \cup {call.name}
       /\ SeqSet(call.foldersAfter) = IndexBefore \cup {call.name}
       /\ Len(call.foldersAfter) = Len(call.foldersBefore) + 1
    \/ /\ call.result = DownloadsRoot
       /\ CallChangedNothing

\* C3: the conflict loop returns the desired name if no such path exists,
\* otherwise stem_k+ext for the smallest k >= 1 whose path does not exist; the
\* returned path does not exist; with report.pdf and report_1.pdf present a new
\* report.pdf resolves to report_2.pdf.
C3_ConflictLoopResult ==
    confl.made =>
        LET S == confl.contents
            n == confl.original
            r == confl.result
        IN  /\ r \notin S
            /\ n \notin S => r = n
            /\ n \in S =>
                   \E k \in 1..(Cardinality(S) + 1) :
                       /\ r = PathStem(n) \o "_" \o ToString(k) \o PathSuffix(n)
                       /\ \A j \in 1..(k - 1) :
                              PathStem(n) \o "_" \o ToString(j) \o PathSuffix(n) \in S
            /\ (n = "report.pdf" /\ {"report.pdf", "report_1.pdf"} \subseteq S
                    /\ "report_2.pdf" \notin S) => r = "report_2.pdf"
            /\ (n = "notes" /\ "notes" \in S /\ "notes_1" \notin S) => r = "notes_1"

\* C3 witness: report.pdf and report_1.pdf are in the folder and the loop has
\* returned report_2.pdf for a new report.pdf
C3_Witness ==
    /\ confl.made
    /\ confl.original = "report.pdf"
    /\ {"report.pdf", "report_1.pdf"} \subseteq confl.contents
    /\ confl.result = "report_2.pdf"

C5_SubstringMatchReused ==
    (call.made /\ CaseMatches = {} /\ SubstringMatches # {}) =>
        /\ call.result \in SubstringMatches
        /\ call.dirsAfter = call.dirsBefore
        /\ call.foldersAfter = call.foldersBefore

\* C5 witness: the index is {"Education"} and "Education and Finance" has been
\* resolved to "Education"
C5_Witness ==
    /\ call.made
    /\ call.foldersBefore = <<"Education">>
    /\ call.name = "Education and Finance"
    /\ call.result = "Education"
    /\ "Education and Finance" \notin dirs

\* C5 witness of the other direction: the requested name is inside an existing one
C5_WitnessContained ==
    /\ call.made
    /\ call.name = "Movies"
    /\ call.result = "old movies"

\* C6: a name resolved twice in sequence, with no deletion in between, gives the
\* same directory both times, and the second call creates no directory and adds
\* no entry to the FolderIndex.
C6_ResolveTwiceSame ==
    (call.made /\ call.repeat) =>
        /\ call.result = call.prevResult
        /\ call.dirsAfter = call.dirsBefore
        /\ call.foldersAfter = call.foldersBefore

\* C6 witness: "Movies" was created by one call and resolved again by the next
C6_Witness ==
    /\ call.made
    /\ call.repeat
    /\ call.name = "Movies"
    /\ call.result = "Movies"
    /\ call.prevResult = "Movies"
    /\ "old movies" \notin IndexBefore

\* C6 witness of the fallback: the creation failed both times
C6_WitnessFallback ==
    /\ call.made
    /\ call.repeat
    /\ call.result = DownloadsRoot

-----------------------------------------------------------------------------
(* Properties of the keyword override (SpecPredict)                        *)

\* the keyword counts of the filename given to the wrapper
EduScore == KeywordScore(edu_indicators, Lower(filename))
FinanceScore == KeywordScore(finance_indicators, Lower(filename))

\* C11: for a small PDF whose two highest raw probabilities are Education and
\* Finance, less than 0.3 apart, EnhancedRandomForestWrapper.predict overrides
\* the category to the side with strictly more keywords, with confidence
\* max(P(side) + 0.2, 0.7), keeps the folder "Education and Finance" and attaches
\* an override annotation.
C11_KeywordOverrideFires ==
    (stage = "enhanced" /\ OverrideAllowed) =>
        /\ FinanceScore > EduScore =>
               /\ result.predicted_category = "Finance"
               /\ result.confidence = Max(Raw("Finance") + KeywordBoost, KeywordFloor)
               /\ result.folder_name = "Education and Finance"
               /\ result.enhancement_applied # NoEnhancement
        /\ EduScore > FinanceScore =>
               /\ result.predicted_category = "Education"
               /\ result.confidence \in
                      {Max(Raw("Education") + KeywordBoost, KeywordFloor),
                       Max(Raw("Education") + Raw("Finance") + KeywordBoost, KeywordFloor)}
               /\ result.folder_name = "Education and Finance"
               /\ result.enhancement_applied # NoEnhancement

-----------------------------------------------------------------------------
(* RandomForestFileClassifier.extract_features_from_file                   *)
(* (random_forest_classifier.py). A dict, and the one row of the           *)
(* DataFrame, is the sequence of its items [name, value] in order.         *)

\* the value of size_on_disk when os.path.getsize raises
Unreadable == 0 - 1

\* size_bytes after the try/except around os.path.getsize
SizeBytes(onDisk) == IF onDisk = Unreadable THEN 0 ELSE onDisk

\* size tiers whose upper bounds are exclusive
SizeCategoryExclusive(size_bytes) ==
    IF size_bytes < 1024 THEN 0
    ELSE IF size_bytes < 100000 THEN 1
    ELSE IF size_bytes < 10000000 THEN 2
    ELSE IF size_bytes < 100000000 THEN 3
    ELSE 4

\* the size tier: tiny, small, medium, large, huge
SizeCategory(size_bytes) ==
    IF size_bytes <= 1024 THEN 0
    ELSE IF size_bytes <= 100000 THEN 1
    ELSE IF size_bytes <= 10000000 THEN 2
    ELSE IF size_bytes <= 100000000 THEN 3
    ELSE 4

\* the keys of category_keywords and category_extensions, in insertion order
FeatureCategories ==
    <<"education", "movies", "games", "apps", "entertainment", "career", "finance", "others">>

\* category_keywords[category]
category_keywords(category) ==
    CASE
       category = "education" ->
            <<"assignment", "notes", "class", "syllabus", "exam", "lecture",
              "worksheet", "college", "study", "textbook", "tutorial", "course",
              "homework", "quiz", "test", "university", "school", "academic",
              "research", "thesis", "dissertation", "math", "science", "biology",
              "chemistry", "physics", "computer", "programming", "algorithm",
              "data", "statistics">>
    [] category = "movies" ->
            <<"movie", "film", "trailer", "cinema", "hd", "bluray", "dvd", "4k",
              "action", "comedy", "drama", "horror", "thriller", "adventure",
              "fantasy", "scifi", "romance", "animation", "documentary", "imax",
              "extended", "directors", "cut", "unrated", "remastered">>
    [] category = "games" ->
            <<"game", "gaming", "setup", "install", "launcher", "steam", "epic",
              "origin", "battle", "playstation", "xbox", "nintendo", "mod", "patch",
              "dlc", "expansion", "multiplayer", "online", "rpg", "fps", "strategy",
              "puzzle", "arcade", "simulation", "sports">>
    [] category = "apps" ->
            <<"app", "application", "software", "program", "tool", "utility",
              "installer", "setup", "exe", "dmg", "pkg", "deb", "rpm", "snap",
              "flatpak", "portable", "professional", "enterprise", "business",
              "productivity", "editor", "browser", "client">>
    [] category = "entertainment" ->
            <<"music", "song", "audio", "video", "entertainment", "comedy", "funny",
              "viral", "trending", "podcast", "stream", "live", "concert", "album",
              "playlist", "mix", "dance", "party", "show", "series", "episode",
              "channel", "youtube", "tiktok", "instagram">>
    [] category = "career" ->
            <<"resume", "cv", "career", "job", "work", "professional", "interview",
              "application", "cover", "letter", "linkedin", "portfolio", "project",
              "skill", "certification", "training", "development", "management",
              "leadership", "performance", "review", "promotion", "salary",
              "negotiation">>
    [] category = "finance" ->
            <<"finance", "financial", "money", "bank", "banking", "invoice", "bill",
              "receipt", "statement", "tax", "salary", "payroll", "budget",
              "expense", "income", "investment", "stock", "crypto", "currency",
              "loan", "mortgage", "insurance", "audit", "accounting">>
    [] category = "others" ->
            <<"temp", "temporary", "cache", "data", "config", "system", "log",
              "backup", "archive", "database", "misc", "other", "unknown", "file",
              "document", "folder", "directory", "settings", "preferences",
              "metadata", "info", "readme", "license", "changelog">>

\* category_extensions[category]
category_extensions(category) ==
    CASE
       category = "education" ->
            <<".pdf", ".docx", ".pptx", ".txt", ".doc", ".ppt", ".rtf", ".tex",
              ".epub", ".bib">>
    [] category = "movies" ->
            <<".mp4", ".mkv", ".avi", ".mov", ".wmv", ".flv", ".webm", ".m4v",
              ".mpg", ".mpeg">>
    [] category = "games" ->
            <<".exe", ".zip", ".rar", ".7z", ".iso", ".msi", ".apk", ".dmg", ".pkg",
              ".deb">>
    [] category = "apps" ->
            <<".exe", ".msi", ".dmg", ".pkg", ".deb", ".rpm", ".snap", ".flatpak",
              ".appimage", ".tar.gz">>
    [] category = "entertainment" ->
            <<".mp3", ".wav", ".flac", ".aac", ".ogg", ".m4a", ".wma", ".mp4",
              ".webm", ".mkv">>
    [] category = "career" ->
            <<".pdf", ".docx", ".doc", ".txt", ".rtf", ".odt">>
    [] category = "finance" ->
            <<".pdf", ".xlsx", ".xls", ".csv", ".txt", ".docx">>
    [] category = "others" ->
            <<".dat", ".bin", ".tmp", ".log", ".cfg", ".ini", ".xml", ".json",
              ".db", ".sqlite", ".bak", ".old">>

\* sum(1 for keyword in keywords if keyword in name_without_ext)
KeywordCount(keywords, name_without_ext) ==
    Cardinality({i \in 1..Len(keywords) : Contains(name_without_ext, keywords[i])})

\* 1 if extension in extensions else 0
ExtMatch(extensions, extension) ==
    IF \E i \in 1..Len(extensions) : extensions[i] = extension THEN 1 ELSE 0

\* 1 if any(c.isdigit() for c in s) else 0
HasNumbers(s) ==
    IF \E i \in 1..Len(s) : Contains("0123456789", CharAt(s, i)) THEN 1 ELSE 0

\* s.count(c) for a single character c
CountChar(s, c) == Cardinality({i \in 1..Len(s) : CharAt(s, i) = c})

\* len of the non-empty words of s.replace('_', ' ').replace('-', ' ').split()
WordCount(s) ==
    LET sep(i) == CharAt(s, i) \in {"_", "-", " "}
    IN  Cardinality({i \in 1..Len(s) : ~sep(i) /\ (i = 1 \/ sep(i - 1))})

\* the dict `features` after the two update calls
Features(file, onDisk) ==
    LET name_without_ext == Lower(SplitextRoot(file))
        extension == Lower(SplitextExt(file))
        size_bytes == SizeBytes(onDisk)
    IN  <<[name |-> "extension", value |-> extension],
          [name |-> "name_length", value |-> Len(name_without_ext)],
          [name |-> "size_bytes", value |-> size_bytes],
          [name |-> "size_category", value |-> SizeCategory(size_bytes)],
          [name |-> "has_numbers", value |-> HasNumbers(name_without_ext)],
          [name |-> "has_underscore", value |-> CountChar(name_without_ext, "_")],
          [name |-> "has_dash", value |-> CountChar(name_without_ext, "-")],
          [name |-> "word_count", value |-> WordCount(name_without_ext)]>>
        \o [i \in 1..Len(FeatureCategories) |->
               [name |-> "keywords_" \o FeatureCategories[i],
                value |-> KeywordCount(category_keywords(FeatureCategories[i]),
                                       name_without_ext)]]
        \o [i \in 1..Len(FeatureCategories) |->
               [name |-> "ext_match_" \o FeatureCategories[i],
                value |-> ExtMatch(category_extensions(FeatureCategories[i]), extension)]]

\* col in df.columns, and the value of that column
ColHas(row, col) == \E i \in 1..Len(row) : row[i].name = col
ColGet(row, col) == row[CHOOSE i \in 1..Len(row) : row[i].name = col].value

\* a loop that adds no column
AddNoColumns(row, columns) == row

RECURSIVE AddMissingColumns(_, _)
\* for col in self.feature_names: if col not in df.columns: df[col] = 0
AddMissingColumns(row, columns) ==
    IF columns = <<>> THEN row
    ELSE AddMissingColumns(
             IF ColHas(row, Head(columns)) THEN row
             ELSE Append(row, [name |-> Head(columns), value |-> 0]),
             Tail(columns))

\* whether df[self.feature_names] raises KeyError
SelectRaises(row, columns) == \E i \in 1..Len(columns) : ~ColHas(row, columns[i])

\* df = df[self.feature_names]
SelectColumns(row, columns) ==
    [i \in 1..Len(columns) |-> [name |-> columns[i], value |-> ColGet(row, columns[i])]]

\* Series.map(self.extension_mapping).fillna(-1) on one value
MapExtension(mapping, extension) ==
    IF ColHas(mapping, extension) THEN ColGet(mapping, extension) ELSE 0 - 1

\* if 'extension' in df.columns: df['extension'] = ...
EncodeExtension(row, mapping) ==
    [i \in 1..Len(row) |->
        IF row[i].name = "extension"
        THEN [name |-> "extension", value |-> MapExtension(mapping, row[i].value)]
        ELSE row[i]]

\* names of the files given to the extraction
FeatureFiles ==
    {"tax_invoice_2024.pdf", "Lecture-Notes v2.PDF", ".bashrc", "", "archive.tar.gz",
     "data.xyz"}

\* what os.path.getsize may give: the edges of the size tiers
FeatureSizes ==
    {Unreadable, 0, 1024, 1025, 100000, 100001, 10000000, 10000001, 100000000, 100000001}

\* the columns of the training data when they are the ones the extraction produces
TrainingColumns ==
    LET produced == Features("", 0)
    IN  [i \in 1..Len(produced) |-> produced[i].name]

\* the schemas a model file may carry in feature_names
Schemas ==
    {TrainingColumns,
     <<"extension", "name_length", "is_hidden", "size_category", "keywords_finance">>,
     <<"word_count", "size_bytes">>,
     <<"entropy", "has_dash", "extension">>,
     <<>>}

\* the extension tables a model file may carry
ExtensionTables ==
    {<<>>,
     <<[name |-> ".pdf", value |-> 0], [name |-> ".mp4", value |-> 1],
       [name |-> "", value |-> 2]>>}

\* a model is loaded and a path is about to be given to the extraction
FeaturesInit ==
    /\ feature_names \in Schemas
    /\ extension_mapping \in ExtensionTables
    /\ file_path \in FeatureFiles
    /\ size_on_disk \in FeatureSizes
    /\ df = <<>>
    /\ fpc = "ready"

\* extract_features_from_file(file_path)
ExtractFeatures ==
    /\ fpc = "ready"
    /\ LET complete == AddMissingColumns(Features(file_path, size_on_disk), feature_names)
       IN  IF SelectRaises(complete, feature_names)
           THEN df' = <<>> /\ fpc' = "KeyError"
           ELSE /\ df' = EncodeExtension(SelectColumns(complete, feature_names),
                                         extension_mapping)
                /\ fpc' = "done"
    /\ UNCHANGED <<feature_names, extension_mapping, file_path, size_on_disk>>
    /\ UNCHANGED <<predictVars, organizeVars, watchVars, monitorVars>>

FeaturesNext == ExtractFeatures

\* one extraction; the classifier call and the handlers are not modelled
FeaturesStart == FeaturesInit /\ PredictIdle /\ OrganizeIdle /\ WatchIdle /\ MonitorIdle

SpecFeatures ==
    /\ FeaturesStart
    /\ [][FeaturesNext]_vars

-----------------------------------------------------------------------------
(* Properties of the feature extraction (SpecFeatures)                     *)

\* the names the extraction produces
ProducedNames == {TrainingColumns[i] : i \in 1..Len(TrainingColumns)}

\* C12: extract_features_from_file returns, without raising, a vector whose
\* fields are exactly feature_names in that order; schema fields the extraction
\* does not produce are 0, and an extension missing from the extension table is
\* encoded as -1.
C12_VectorMatchesSchema ==
    fpc # "ready" =>
        /\ fpc = "done"
        /\ Len(df) = Len(feature_names)
        /\ \A i \in 1..Len(df) :
               /\ df[i].name = feature_names[i]
               /\ feature_names[i] \notin ProducedNames => df[i].value = 0
               /\ (/\ feature_names[i] = "extension"
                   /\ \A j \in 1..Len(extension_mapping) :
                          extension_mapping[j].name # Lower(SplitextExt(file_path)))
                  => df[i].value = 0 - 1

\* C12 witness: a schema with a field the extraction does not produce, without
\* most of the produced fields, and a file whose extension is not in the table
C12_Witness ==
    /\ fpc = "done"
    /\ file_path = "data.xyz"
    /\ extension_mapping # <<>>
    /\ df = <<[name |-> "entropy", value |-> 0], [name |-> "has_dash", value |-> 0],
              [name |-> "extension", value |-> 0 - 1]>>

\* C12 witness of the empty name: the full training schema, every count 0
C12_WitnessEmptyName ==
    /\ fpc = "done"
    /\ file_path = ""
    /\ feature_names = TrainingColumns
    /\ Len(df) = Len(TrainingColumns)
    /\ df[2] = [name |-> "name_length", value |-> 0]

-----------------------------------------------------------------------------
(* Properties of the in-flight set and of the status callback (SpecWatch)  *)

\* the workers that have added their path to processing_files and have not
\* reached the end of the finally clause
Holding(p) ==
    {w \in Workers : /\ wloc[w].path = p
                     /\ \/ wpc[w] \in {"classify", "conflict", "move"}
                        \/ wpc[w] = "finally" /\ wloc[w].callbacks # <<>>}

\* every worker thread has returned, or was never started
AllWorkersDone == \A w \in Workers : wpc[w] \in {"unused", "done"}

\* C15: as long as the process runs, a path is in processing_files only while
\* a worker that inserted it has not finished, whether its move succeeded or
\* raised; once all workers have terminated, processing_files is empty.
C15_InFlightCleared ==
    watch_state # "closed" =>
        /\ \A p \in processing_files : Holding(p) # {}
        /\ AllWorkersDone => processing_files = {}

\* C15 witness: a worker inserted its path, its move raised, and every worker
\* has terminated with processing_files empty
C15_Witness ==
    /\ AllWorkersDone
    /\ \E w \in Workers : wloc[w].outcome = "raised"
    /\ processing_files = {}

\* C16: while any worker is inside _organize_file for path p, p is in
\* processing_files.
C16_InFlightWhileOrganizing ==
    \A p \in WatchedPaths : Organizing(p) # {} => p \in processing_files

\* the status_callback messages that report a failure
FailureReports(w) ==
    {i \in 1..Len(wloc[w].callbacks) :
        wloc[w].callbacks[i] \notin {"Auto-organizing", "Moved to"}}

\* C18: a worker whose classification, folder creation or move raised has
\* reported the failure through status_callback.
C18_FailureReported ==
    \A w \in Workers : wloc[w].outcome = "raised" => FailureReports(w) # {}


-----------------------------------------------------------------------------
(* Properties of a failed directory creation (SpecOrganize)                *)

\* the last call reached the creation step: nothing on disk and nothing in the
\* index answered the requested name
CreationAttempted ==
    /\ call.made
    /\ call.name \notin call.dirsBefore \cup call.filesBefore
    /\ CaseMatches = {}
    /\ SubstringMatches = {}

\* C20: when the creation of a category directory fails, _get_or_create_folder
\* returns downloads_path itself, leaves the FolderIndex and the disk as they
\* were, and the handler goes on with downloads_path as the destination.
C20_FailedCreationFallsBack ==
    (CreationAttempted /\ ~rootWritable) =>
        /\ call.result = DownloadsRoot
        /\ call.name \notin SeqSet(call.foldersAfter)
        /\ call.foldersAfter = call.foldersBefore
        /\ call.dirsAfter = call.dirsBefore
        /\ opc = "conflict" => cur.target_folder = DownloadsRoot

\* C20 witness: the creation of "Movies" failed, the file was moved inside
\* downloads_path, and the handler is ready for the next file
C20_Witness ==
    /\ CreationAttempted
    /\ ~rootWritable
    /\ call.name = "Movies"
    /\ call.result = DownloadsRoot
    /\ opc = "idle"
    /\ Len(history) = 1
    /\ history[1].folder = "Movies"
    /\ "Movies" \notin SeqSet(existing_folders)


-----------------------------------------------------------------------------
(* auto_file_organizer.AutoFileOrganizer.start_monitoring: the handler is   *)
(* constructed, the batch pass visits the files already in downloads_path,  *)
(* then the observer hands its events to on_created and on_moved, one at a  *)
(* time. _organize_file itself is the organizer's steps above.              *)

\* files that may arrive while the observer runs
MaxArrivals == 1

\* what model_path may hold
ModelFiles == {"absent", "corrupt", "valid"}

\* the files in downloads_path when start_monitoring is called
ExistingFiles == {"report.pdf", "notes", "tiny.pdf"}

\* the names the conflict loop gives to the files that arrive
RenamedFiles == {Numbered(f, counter) : f \in NewFiles, counter \in 1..MaxArrivals}

AllFiles == ExistingFiles \cup NewFiles \cup RenamedFiles

\* the positions of _organize_file past the ignore filter
Processing == {"classify", "resolve", "conflict", "move"}

\* a process is about to call start_monitoring
MonitorInit ==
    /\ model_file \in ModelFiles
    /\ is_trained = FALSE
    /\ mpc = "start"
    /\ handler = FALSE
    /\ observer = "none"
    /\ file_list = {}
    /\ organized_count = 0
    /\ running = NoCaller
    /\ outcome = [f \in AllFiles |-> ""]
    /\ growing = {}
    /\ pending = <<>>
    /\ nArrived = 0
    /\ dirs = {}
    /\ existing_folders = <<>>
    /\ rootWritable \in BOOLEAN
    /\ rootFiles = ExistingFiles
    /\ folderFiles = [d \in AllDirNames |-> {}]
    /\ opc = "idle"
    /\ cur = NoLocals
    /\ call = NoCall
    /\ deletedSince = FALSE
    /\ nDeleted = 0
    /\ confl = NoConflict
    /\ history = <<>>
    /\ nOrganized = 0

\* FileOrganizerHandler.__init__ inside start_monitoring: a missing model
\* file raises FileNotFoundError and start_monitoring gives up; load_model
\* catches what joblib.load raises, so a file that cannot be loaded leaves a
\* handler whose classifier is not trained
ConstructHandler ==
    /\ mpc = "start"
    /\ IF model_file = "absent"
       THEN /\ mpc' = "failed"
            /\ UNCHANGED <<handler, is_trained, existing_folders>>
       ELSE /\ mpc' = "list"
            /\ handler' = TRUE
            /\ is_trained' = (model_file = "valid")
            /\ existing_folders' \in Orders(ScannedFolders(dirs))
    /\ UNCHANGED <<model_file, observer, file_list, organized_count, running, outcome,
                   growing, pending, nArrived>>
    /\ UNCHANGED <<dirs, rootWritable, rootFiles, folderFiles, opc, cur, call,
                   deletedSince, nDeleted, confl, history, nOrganized>>
    /\ UNCHANGED <<predictVars, watchVars, featureVars>>

\* organize_existing_files lists the regular files whose name has no leading dot
ListExisting ==
    /\ mpc = "list"
    /\ file_list' = {f \in rootFiles : ~StartsWith(f, ".")}
    /\ mpc' = "batch"
    /\ UNCHANGED <<model_file, is_trained, handler, observer, organized_count, running,
                   outcome, growing, pending, nArrived>>
    /\ UNCHANGED <<organizeVars, predictVars, watchVars, featureVars>>

\* the loop calls self.handler._organize_file(file_path) for the next entry;
\* iterdir gives the entries in any order
BatchOrganize(f) ==
    /\ mpc = "batch"
    /\ running.by = "none"
    /\ f \in file_list
    /\ file_list' = file_list \ {f}
    /\ IF ShouldIgnore(f, dirs, rootFiles)
       THEN /\ outcome' = [outcome EXCEPT ![f] = "ignored"]
            /\ organized_count' = organized_count + 1
            /\ UNCHANGED <<running, opc, cur>>
       ELSE /\ running' = [by |-> "batch", file |-> f, at |-> "body", changed |-> FALSE,
                           logged |-> Len(history)]
            /\ cur' = [NoLocals EXCEPT !.file = f]
            /\ opc' = "classify"
            /\ UNCHANGED <<outcome, organized_count>>
    /\ UNCHANGED <<model_file, is_trained, mpc, handler, observer, growing, pending,
                   nArrived>>
    /\ UNCHANGED <<dirs, existing_folders, rootWritable, rootFiles, folderFiles, call,
                   deletedSince, nDeleted, confl, history, nOrganized>>
    /\ UNCHANGED <<predictVars, watchVars, featureVars>>

\* how a run of _organize_file past the filter ended: it appended to the log or
\* one of its except clauses logged an error
Ended == IF Len(history) > running.logged THEN "moved" ELSE "failed"

\* a batch loop that stops at the first file whose _organize_file logged an error
BatchStopsAtFailure ==
    /\ running.by = "batch"
    /\ opc = "idle"
    /\ outcome' = [outcome EXCEPT ![running.file] = Ended]
    /\ organized_count' = organized_count + 1
    /\ running' = NoCaller
    /\ file_list' = IF Ended = "failed" THEN {} ELSE file_list
    /\ UNCHANGED <<model_file, is_trained, mpc, handler, observer, growing, pending,
                   nArrived>>
    /\ UNCHANGED <<organizeVars, predictVars, watchVars, featureVars>>

\* _organize_file returns to the batch loop, which counts the file and goes on
BatchReturn ==
    /\ running.by = "batch"
    /\ opc = "idle"
    /\ outcome' = [outcome EXCEPT ![running.file] = Ended]
    /\ organized_count' = organized_count + 1
    /\ running' = NoCaller
    /\ UNCHANGED <<model_file, is_trained, mpc, handler, observer, file_list, growing,
                   pending, nArrived>>
    /\ UNCHANGED <<organizeVars, predictVars, watchVars, featureVars>>

\* the batch pass is over: Observer(), schedule, start
StartObserver ==
    /\ mpc = "batch"
    /\ running.by = "none"
    /\ file_list = {}
    /\ observer' = "started"
    /\ mpc' = "observing"
    /\ UNCHANGED <<model_file, is_trained, handler, file_list, organized_count, running,
                   outcome, growing, pending, nArrived>>
    /\ UNCHANGED <<organizeVars, predictVars, watchVars, featureVars>>

\* observer.start() raises (no inotify watch left, downloads_path gone): the
\* except clause of start_monitoring calls stop_monitoring, where self.observer
\* is set, stop() returns and join() of a thread that never started raises
\* RuntimeError, which leaves start_monitoring
ObserverStartFails ==
    /\ mpc = "batch"
    /\ running.by = "none"
    /\ file_list = {}
    /\ observer' = "created"
    /\ mpc' = "stop_raised"
    /\ UNCHANGED <<model_file, is_trained, handler, file_list, organized_count, running,
                   outcome, growing, pending, nArrived>>
    /\ UNCHANGED <<organizeVars, predictVars, watchVars, featureVars>>

\* KeyboardInterrupt in the sleep loop: stop_monitoring calls observer.stop(),
\* after which the observer thread takes no further event from its queue
Interrupt ==
    /\ mpc = "observing"
    /\ observer' = "stopping"
    /\ mpc' = "joining"
    /\ UNCHANGED <<model_file, is_trained, handler, file_list, organized_count, running,
                   outcome, growing, pending, nArrived>>
    /\ UNCHANGED <<organizeVars, predictVars, watchVars, featureVars>>

\* observer.join() returns once the observer thread has left the handler it
\* was in; the events still queued are dropped
JoinReturns ==
    /\ mpc = "joining"
    /\ running.by = "none"
    /\ observer' = "stopped"
    /\ pending' = <<>>
    /\ mpc' = "stopped"
    /\ UNCHANGED <<model_file, is_trained, handler, file_list, organized_count, running,
                   outcome, growing, nArrived>>
    /\ UNCHANGED <<organizeVars, predictVars, watchVars, featureVars>>

\* stop_monitoring called once more: stop() and join() of a finished thread return
StopAgain ==
    /\ mpc = "stopped"
    /\ mpc' = "stopped_again"
    /\ UNCHANGED <<model_file, is_trained, handler, observer, file_list, organized_count,
                   running, outcome, growing, pending, nArrived>>
    /\ UNCHANGED <<organizeVars, predictVars, watchVars, featureVars>>

\* a download creates a file in downloads_path and goes on writing to it
Download(f) ==
    /\ observer = "started"
    /\ nArrived < MaxArrivals
    /\ f \in NewFiles \ rootFiles
    /\ rootFiles' = rootFiles \cup {f}
    /\ growing' = growing \cup {f}
    /\ pending' = Append(pending, [kind |-> "created", file |-> f])
    /\ nArrived' = nArrived + 1
    /\ UNCHANGED <<model_file, is_trained, mpc, handler, observer, file_list,
                   organized_count, running, outcome>>
    /\ UNCHANGED <<dirs, existing_folders, rootWritable, folderFiles, opc, cur, call,
                   deletedSince, nDeleted, confl, history, nOrganized>>
    /\ UNCHANGED <<predictVars, watchVars, featureVars>>

\* a file is renamed into downloads_path, complete or with its writer still at work
MovedInto(f, writing) ==
    /\ observer = "started"
    /\ nArrived < MaxArrivals
    /\ f \in NewFiles \ rootFiles
    /\ rootFiles' = rootFiles \cup {f}
    /\ growing' = IF writing THEN growing \cup {f} ELSE growing
    /\ pending' = Append(pending, [kind |-> "moved", file |-> f])
    /\ nArrived' = nArrived + 1
    /\ UNCHANGED <<model_file, is_trained, mpc, handler, observer, file_list,
                   organized_count, running, outcome>>
    /\ UNCHANGED <<dirs, existing_folders, rootWritable, folderFiles, opc, cur, call,
                   deletedSince, nDeleted, confl, history, nOrganized>>
    /\ UNCHANGED <<predictVars, watchVars, featureVars>>

\* the writer of a file closes it
DownloadCompletes(f) ==
    /\ f \in growing
    /\ growing' = growing \ {f}
    /\ UNCHANGED <<model_file, is_trained, mpc, handler, observer, file_list,
                   organized_count, running, outcome, pending, nArrived>>
    /\ UNCHANGED <<organizeVars, predictVars, watchVars, featureVars>>

\* the user deletes the file a handler is waiting for
UserRemoves(f) ==
    /\ running.file = f
    /\ running.at \in {"sleep", "call"}
    /\ f \in rootFiles
    /\ rootFiles' = rootFiles \ {f}
    /\ growing' = growing \ {f}
    /\ UNCHANGED <<model_file, is_trained, mpc, handler, observer, file_list,
                   organized_count, running, outcome, pending, nArrived>>
    /\ UNCHANGED <<dirs, existing_folders, rootWritable, folderFiles, opc, cur, call,
                   deletedSince, nDeleted, confl, history, nOrganized>>
    /\ UNCHANGED <<predictVars, watchVars, featureVars>>

\* on_created up to time.sleep(2); a file whose writer is at work when the
\* sleep begins has another size when it ends
on_created_event ==
    /\ observer = "started"
    /\ running.by = "none"
    /\ pending # <<>>
    /\ Head(pending).kind = "created"
    /\ running' = [by |-> "created", file |-> Head(pending).file, at |-> "sleep",
                   changed |-> Head(pending).file \in growing, logged |-> Len(history)]
    /\ pending' = Tail(pending)
    /\ UNCHANGED <<model_file, is_trained, mpc, handler, observer, file_list,
                   organized_count, outcome, growing, nArrived>>
    /\ UNCHANGED <<organizeVars, predictVars, watchVars, featureVars>>

\* on_created after the sleep: `if not file_path.exists(): return`
AfterSleep ==
    /\ running.by = "created"
    /\ running.at = "sleep"
    /\ IF running.file \in rootFiles
       THEN /\ running' = [running EXCEPT !.at = "call"]
            /\ UNCHANGED outcome
       ELSE /\ running' = NoCaller
            /\ outcome' = [outcome EXCEPT ![running.file] = "discarded"]
    /\ UNCHANGED <<model_file, is_trained, mpc, handler, observer, file_list,
                   organized_count, growing, pending, nArrived>>
    /\ UNCHANGED <<organizeVars, predictVars, watchVars, featureVars>>

\* `any(pattern in file_path.name for pattern in self.ignore_patterns)`
AnyPatternIn(name) == \E pattern \in ignore_patterns : Contains(name, pattern)

\* on_moved: no sleep; the file must exist and its name hold no ignore pattern
on_moved_event ==
    /\ observer = "started"
    /\ running.by = "none"
    /\ pending # <<>>
    /\ Head(pending).kind = "moved"
    /\ LET f == Head(pending).file
       IN  IF f \in rootFiles /\ ~AnyPatternIn(f)
           THEN /\ running' = [by |-> "moved", file |-> f, at |-> "call",
                               changed |-> f \in growing, logged |-> Len(history)]
                /\ UNCHANGED outcome
           ELSE /\ running' = NoCaller
                /\ outcome' = [outcome EXCEPT ![f] = "discarded"]
    /\ pending' = Tail(pending)
    /\ UNCHANGED <<model_file, is_trained, mpc, handler, observer, file_list,
                   organized_count, growing, nArrived>>
    /\ UNCHANGED <<organizeVars, predictVars, watchVars, featureVars>>

\* self._organize_file(file_path) called by on_created or on_moved: the filter
HandlerOrganize ==
    /\ running.by \in {"created", "moved"}
    /\ running.at = "call"
    /\ IF ShouldIgnore(running.file, dirs, rootFiles)
       THEN /\ outcome' = [outcome EXCEPT ![running.file] = "ignored"]
            /\ running' = NoCaller
            /\ UNCHANGED <<opc, cur>>
       ELSE /\ running' = [running EXCEPT !.at = "body"]
            /\ cur' = [NoLocals EXCEPT !.file = running.file]
            /\ opc' = "classify"
            /\ UNCHANGED outcome
    /\ UNCHANGED <<model_file, is_trained, mpc, handler, observer, file_list,
                   organized_count, growing, pending, nArrived>>
    /\ UNCHANGED <<dirs, existing_folders, rootWritable, rootFiles, folderFiles, call,
                   deletedSince, nDeleted, confl, history, nOrganized>>
    /\ UNCHANGED <<predictVars, watchVars, featureVars>>

\* _organize_file returns to on_created or on_moved, which returns to the observer
HandlerReturn ==
    /\ running.by \in {"created", "moved"}
    /\ running.at = "body"
    /\ opc = "idle"
    /\ outcome' = [outcome EXCEPT ![running.file] = Ended]
    /\ running' = NoCaller
    /\ UNCHANGED <<model_file, is_trained, mpc, handler, observer, file_list,
                   organized_count, growing, pending, nArrived>>
    /\ UNCHANGED <<organizeVars, predictVars, watchVars, featureVars>>

\* predict returns only for a trained classifier: it raises ValueError otherwise
TrainedClassify(folder) == is_trained /\ Classify(folder)

MonitorNext ==
    \/ ConstructHandler
    \/ ListExisting
    \/ \E f \in AllFiles : BatchOrganize(f)
    \/ BatchReturn
    \/ StartObserver
    \/ ObserverStartFails
    \/ Interrupt
    \/ JoinReturns
    \/ StopAgain
    \/ \E f \in NewFiles : Download(f)
    \/ \E f \in NewFiles, writing \in BOOLEAN : MovedInto(f, writing)
    \/ \E f \in NewFiles : DownloadCompletes(f)
    \/ \E f \in NewFiles : UserRemoves(f)
    \/ on_created_event
    \/ AfterSleep
    \/ on_moved_event
    \/ HandlerOrganize
    \/ HandlerReturn
    \/ \E folder \in PredictedFolders : TrainedClassify(folder)
    \/ ClassifyRaises
    \/ ResolveFolder
    \/ HandleConflict
    \/ MoveFile
    \/ MoveFails
    \/ \E d \in dirs : ExternalDelete(d)

\* start_monitoring is called; no classifier input and no GUI worker is modelled
MonitorStart == MonitorInit /\ PredictIdle /\ WatchIdle /\ FeaturesIdle

SpecMonitor ==
    /\ MonitorStart
    /\ [][MonitorNext]_vars


-----------------------------------------------------------------------------
(* Properties of start_monitoring (SpecMonitor)                             *)

\* C19: while the classifier is not loaded, no handler is constructed, the
\* observer is not started and _organize_file never reaches the predict call.
C19_NoRunWithoutModel ==
    ~is_trained =>
        /\ ~handler
        /\ observer = "none"
        /\ opc # "classify"


\* C13: a file that a watch event brought into _organize_file past the filter
\* had the same size at both ends of the delay.
C13_OnlyStableFilesProcessed ==
    (running.by \in {"created", "moved"} /\ opc \in Processing) => ~running.changed


\* the suffix or the name of a file is in the static ignore list
NameIgnored(f) ==
    \/ \E pattern \in ignore_patterns :
           /\ StartsWith(pattern, ".")
           /\ LowerOf(PathSuffix(f)) = pattern
    \/ \E pattern \in ignore_patterns : f = pattern

\* the files the filter must discard whatever is on disk
NeverProcessed == {f \in AllFiles : NameIgnored(f) \/ FileBytes(f) < 1024}

\* C14: _organize_file is past its filter only for a regular file that exists,
\* whose suffix and name are not in the ignore list and whose size is at least
\* 1024 bytes; a file that fails this is never classified, resolved or moved, in
\* the batch pass and under a watch event alike.
C14_IgnoredPathsUntouched ==
    /\ opc \in Processing =>
           /\ cur.file \in AllFiles \ NeverProcessed
           /\ cur.file \notin dirs
           /\ cur.file \in rootFiles
    /\ \A i \in 1..Len(history) : history[i].file \in AllFiles \ NeverProcessed
    /\ \A f \in NeverProcessed : outcome[f] \in {"", "ignored", "discarded"}

\* C14 witness: the batch pass discarded the 1023-byte file and on_created
\* discarded the .part file, while report.pdf was moved
C14_Witness ==
    /\ outcome["tiny.pdf"] = "ignored"
    /\ outcome["new.part"] = "ignored"
    /\ outcome["report.pdf"] = "moved"
    /\ {"tiny.pdf", "new.part"} \subseteq rootFiles

\* C14 witness of the unreadable path: new.pdf was deleted before the filter
\* read its size
C14_WitnessUnreadable ==
    /\ outcome["new.pdf"] = "ignored"
    /\ "new.pdf" \notin rootFiles
    /\ history = <<>>


\* some file ended with a logged error
SomeFileFailed == \E f \in AllFiles : outcome[f] = "failed"

\* C17: an error raised while one file is processed ends that file only: the
\* batch pass still visits every file it listed, the observer is started after
\* it and stays started, and start_monitoring gives up for a missing model file
\* only.
C17_FailureConfined ==
    /\ mpc \notin {"start", "list", "batch", "failed"} =>
           \A f \in ExistingFiles : outcome[f] # ""
    /\ mpc = "observing" => observer = "started"
    /\ mpc = "failed" => model_file = "absent" /\ ~SomeFileFailed

\* C17 witness: report.pdf failed in the batch pass, notes was moved by the same
\* pass, and the file that arrived later was moved by on_created
C17_Witness ==
    /\ outcome["report.pdf"] = "failed"
    /\ outcome["notes"] = "moved"
    /\ outcome["new.pdf"] = "moved"
    /\ mpc = "observing"
    /\ organized_count = 3

\* C17 witness under the observer: the event's file failed and the handler is
\* back waiting for events
C17_WitnessWatch ==
    /\ outcome["new.pdf"] = "failed"
    /\ running.by = "none"
    /\ observer = "started"


-----------------------------------------------------------------------------
(* Properties of organized_files.log (SpecOrganize)                         *)

\* C21: a step that appends to the history appends one record, keeps the
\* records already there, and the folder of the new record is the directory
\* the file was moved into; no other step changes the history.
C21_RecordNamesFolderUsed ==
    [][/\ history' # history =>
              /\ Len(history') = Len(history) + 1
              /\ SubSeq(history', 1, Len(history)) = history
              /\ opc = "move"
              /\ cur.file \notin rootFiles' \/ cur.target_folder = DownloadsRoot
              /\ history'[Len(history')].file = cur.file
              /\ history'[Len(history')].folder = cur.target_folder
       /\ (opc = "move" /\ opc' = "idle" /\ cur.file \notin rootFiles') =>
              Len(history') = Len(history) + 1]_vars


-----------------------------------------------------------------------------
(* Properties of the batch pass (SpecMonitor)                               *)

\* the files of the batch list whose move completed
MovedInBatch == {f \in ExistingFiles : outcome[f] = "moved"}

\* C22: when the batch pass is over, organized_count is the number of files
\* the pass moved.
C22_CountIsFilesMoved ==
    mpc = "observing" => organized_count = Cardinality(MovedInBatch)


-----------------------------------------------------------------------------
(* Properties of stop_monitoring (SpecMonitor)                              *)

\* C23: stop_monitoring raises nothing, whether the observer was started,
\* already stopped or never started, and a second stop leaves the observer as
\* the first one left it.
C23_StopRaisesNothing ==
    /\ mpc # "stop_raised"
    /\ mpc = "stopped_again" => observer = "stopped"
    /\ mpc = "failed" => observer = "none"


-----------------------------------------------------------------------------
(* Properties of stopping the watch (SpecWatch)                             *)

\* C24: no worker thread that on_created started is ended before it has
\* returned from _process_file_delayed, whichever way the watch is stopped.
C24_StopLeavesWorkersRunning ==
    \A w \in Workers : wpc[w] # "killed"

-----------------------------------------------------------------------------
(* Properties of concurrent folder creation (SpecWatch)                     *)

-----------------------------------------------------------------------------
(* Properties of resolving a folder that was deleted (SpecOrganize)         *)

\* C27: the folder a resolution returns is on disk when the call returns,
\* also when the directory of an indexed name was deleted since it was indexed.
C27_DeletedFolderRecreated ==
    call.made => (call.result = DownloadsRoot \/ call.result \in call.dirsAfter)

-----------------------------------------------------------------------------
(* Properties of the entries of existing_folders (SpecOrganize)             *)

\* C28: existing_folders starts as the non-hidden directories found by the
\* startup scan; afterwards a step changes it only by adding one name, whose
\* directory that same step created, and no entry is ever removed.
C28_IndexEntriesWereDirectories ==
    /\ SeqSet(existing_folders) = {d \in dirs : ~StartsWith(d, ".")}
    /\ [][existing_folders' # existing_folders =>
             /\ SeqSet(existing_folders) \subseteq SeqSet(existing_folders')
             /\ Len(existing_folders') = Len(existing_folders) + 1
             /\ \E name \in dirs' \ dirs :
                    SeqSet(existing_folders') = SeqSet(existing_folders) \cup {name}]_vars

\* the index holds a name that a resolution created and a name whose
\* directory has been deleted since
C28_Witness ==
    /\ call.made
    /\ call.name \in SeqSet(call.foldersAfter) \ SeqSet(call.foldersBefore)
    /\ call.name \in SeqSet(existing_folders)
    /\ \E e \in SeqSet(existing_folders) : e \notin dirs

-----------------------------------------------------------------------------
(* Properties of the tie-break of the keyword override (SpecPredict)        *)

\* C29: in the Education/Finance ambiguity case with equal keyword counts,
\* EnhancedRandomForestWrapper.predict returns Education with confidence
\* max(P(Education) + 0.15, 0.6) when the file is below 5 MB and P(Education)
\* is above 0.15, and the baseline result when the size or the floor fails.
C29_TieBreaksTowardEducation ==
    (stage = "enhanced" /\ OverrideAllowed /\ EduScore = FinanceScore) =>
        /\ (size_kb < VerySmallPdfKB /\ Raw("Education") > EducationFloor) =>
               /\ result.predicted_category = "Education"
               /\ result.confidence \in
                      {Max(Raw("Education") + TieBoost, TieFloor),
                       Max(Raw("Education") + Raw("Finance") + TieBoost, TieFloor)}
        /\ (size_kb >= VerySmallPdfKB
               \/ Raw("Education") + Raw("Finance") <= EducationFloor) =>
               result = Baseline

-----------------------------------------------------------------------------
(* Properties of the range of the confidence (SpecPredict)                  *)

C30_WitnessEnds ==
    /\ stage = "rf"
    /\ \/ Raw("Movies") = 100 /\ result.confidence = 100
       \/ Raw("Finance") = 100 /\ result.confidence = 0

-----------------------------------------------------------------------------
(* Properties of the progress of the workers (SpecWatchFair)                *)

\* C26: under a fair scheduler every worker that on_created started for a
\* path reaches the end of _process_file_delayed, and processing_files is
\* eventually empty for good.
C26_EveryPathTerminates ==
    /\ \A w \in Workers : (wpc[w] = "sleep1") ~> (wpc[w] = "done")
    /\ <>[](processing_files = {})

-----------------------------------------------------------------------------
(* Properties of the size tier (SpecFeatures)                               *)

\* C31: the size_category that extract_features_from_file returns is the one
\* tier among 0..4 whose inclusive upper bound (1024, 100000, 10000000,
\* 100000000 bytes, none for 4) is the first the size does not exceed, so that
\* a larger size never gets a smaller tier; a size that cannot be read counts
\* as 0 bytes and raises nothing.
C31_SizeTiersInclusive ==
    /\ (fpc # "ready" /\ size_on_disk = Unreadable) => fpc = "done"
    /\ (fpc = "done" /\ ColHas(df, "size_category")) =>
           LET bytes == IF size_on_disk = Unreadable THEN 0 ELSE size_on_disk
               tier == ColGet(df, "size_category")
           IN  /\ tier \in 0..4
               /\ tier = 0 <=> bytes <= 1024
               /\ tier <= 1 <=> bytes <= 100000
               /\ tier <= 2 <=> bytes <= 10000000
               /\ tier <= 3 <=> bytes <= 100000000

\* a size that is exactly the upper bound of the tier small
C31_Witness ==
    /\ fpc = "done"
    /\ size_on_disk = 100000
    /\ ColHas(df, "size_category")
    /\ ColGet(df, "size_category") = 1

\* a size that cannot be read
C31_WitnessUnreadable ==
    /\ fpc = "done"
    /\ size_on_disk = Unreadable
    /\ ColHas(df, "size_category")
    /\ ColGet(df, "size_category") = 0

-----------------------------------------------------------------------------
(* Properties of the choice among several matches (SpecOrganize)            *)

\* C32: the directory a resolution returns depends on the names in
\* existing_folders and on the requested name only: with the same names in any
\* other iteration order the call returns the same directory.
C32_ChoiceIndependentOfOrder ==
    call.made =>
        \A q \in Orders(IndexBefore) :
            \A o \in GetOrCreateFolder(call.name, call.dirsBefore, call.filesBefore, q,
                                       rootWritable) :
                o.result = call.result

-----------------------------------------------------------------------------
(* Properties of the moves into a shared folder (SpecWatch)                 *)

\* C33: whenever a worker's shutil.move succeeds, no file exists at its
\* destination just before, so that no file moved earlier is overwritten.
C33_MoveNeverOverwrites ==
    [][\A w \in Workers :
           (wpc[w] = "move" /\ wpc'[w] = "finally" /\ wloc'[w].outcome = "moved") =>
               wloc[w].destination \notin destFiles[wloc[w].category]]_vars

-----------------------------------------------------------------------------
(* Properties of the batch pass beside the watch workers (SpecSweep)        *)

\* C34: no path is inside _organize_file of a watch worker while the thread of
\* _organize_existing_files classifies or moves the same path.
C34_SweepAndWorkerExclusive ==
    \A w \in Workers :
        ~(/\ wpc[w] \in {"classify", "conflict", "move"}
          /\ sweep.pc \in {"classify", "conflict", "move"}
          /\ wloc[w].path = sweep.path)

-----------------------------------------------------------------------------
(* Properties of a worker that gives its path up (SpecWatch)                *)

\* C35: when a worker that left at the stability check (its size read raised or
\* the size changed, so it never entered _organize_file) ends, it removes no
\* entry of processing_files that another worker inserted for the same path
\* and is still processing.
C35_DiscardLeavesOthersEntry ==
    [][\A w \in Workers :
           (wpc[w] = "finally" /\ wpc'[w] = "done" /\ wloc[w].category = "") =>
               ~(/\ wloc[w].path \in processing_files
                 /\ wloc[w].path \notin processing_files'
                 /\ \E v \in Workers \ {w} :
                        /\ wloc[v].path = wloc[w].path
                        /\ wpc[v] \in {"classify", "conflict", "move"})]_vars

-----------------------------------------------------------------------------
(* Properties of the single placement (SpecMonitor)                        *)

\* C36: the pipeline never runs _organize_file past the filter for the file
\* its own last move has just placed.
C36_PlacedFileNotProcessedAgain ==
    ~(/\ opc \in Processing
      /\ confl.made
      /\ Len(history) > 0
      /\ history[Len(history)].file = confl.original
      /\ cur.file = confl.result)

-----------------------------------------------------------------------------
(* Properties of the names the resolver inserts (SpecOrganize)             *)

\* two folder names of which one, in lower case, equals or contains the other
NamesRelated(a, b) ==
    \/ LowerOf(a) = LowerOf(b)
    \/ Contains(LowerOf(a), LowerOf(b))
    \/ Contains(LowerOf(b), LowerOf(a))

\* C37: every step that changes the FolderIndex inserts one name, the one
\* _get_or_create_folder was called with, and that name is related to no entry
\* the index held before the step; the name the last call inserted is related
\* to no other entry of the index.
C37_InsertedNameUnrelated ==
    /\ [](call.made /\ call.foldersAfter # call.foldersBefore =>
            \A e \in SeqSet(existing_folders) \ {call.name} :
                ~NamesRelated(e, call.name))
    /\ [][existing_folders' # existing_folders =>
            /\ SeqSet(existing_folders') = SeqSet(existing_folders) \cup {cur.folder_name}
            /\ \A e \in SeqSet(existing_folders) : ~NamesRelated(e, cur.folder_name)]_vars

\* C37 witness: the last call created a folder and inserted its name into an
\* index that already held two entries
C37_Witness ==
    /\ call.made
    /\ call.foldersAfter # call.foldersBefore
    /\ Len(call.foldersBefore) >= 2
    /\ call.name \in SeqSet(existing_folders)
    /\ call.name \in dirs

-----------------------------------------------------------------------------
(* Properties of a classifier that raises (SpecMonitor)                    *)

\* C38: the step in which classifier.predict raises inside _organize_file
\* leaves the files of downloads_path and of its folders, the directories,
\* existing_folders and the records of organized_files.log as they were, and
\* the file is still in downloads_path under its name.
C38_RaisedPredictChangesNothing ==
    [][opc = "classify" /\ opc' = "idle" =>
          /\ rootFiles' = rootFiles
          /\ folderFiles' = folderFiles
          /\ dirs' = dirs
          /\ existing_folders' = existing_folders
          /\ history' = history
          /\ (cur.file \in rootFiles => cur.file \in rootFiles')]_vars

\* C38 witness: the classifier is not trained, predict has raised for the file
\* on_created or on_moved handed to _organize_file, and the file is where it
\* was, with no folder resolved and no record written
C38_Witness ==
    /\ ~is_trained
    /\ running.by \in {"created", "moved"}
    /\ running.at = "body"
    /\ opc = "idle"
    /\ running.file \in rootFiles
    /\ ~call.made
    /\ history = <<>>

-----------------------------------------------------------------------------
====
